---- MODULE Spec2Model ----
(***************************************************************************)
(* Verification model of the financial-risk scoring pipeline               *)
(* (src/agent.py): the retry decorator, the on-disk JSON cache and the     *)
(* fetchers that read through it, the backtest driver and the sub-score    *)
(* engines' data access.                                                   *)
(***************************************************************************)
EXTENDS Integers, Sequences, FiniteSets, TLC

VARIABLES
    \* ---- retry_with_backoff.wrapper (src/agent.py:49-73) ----
    max_retries,   \* decorator argument
    base_delay,    \* decorator argument
    exponent,      \* decorator argument
    retries,       \* local of wrapper
    delay,         \* local of wrapper
    rpc,           \* position of the wrapper: "idle", "loop", "returned", "raised"
    outcomes,      \* history: one entry per execution of the wrapped function
    sleeps,        \* history: the argument of every time.sleep(delay) call
    rresult,       \* what the wrapper returned ("None" when nothing)
    nest,          \* a chain of decorated functions calling one another: one wrapper frame each
    \* ---- the cache directory and the clock ----
    disk,          \* cache key -> the file ./cache/<key>.json (existence, content, mtime)
    now,           \* datetime.now(), in whole days
    ticks,         \* how many times the clock has been advanced
    ret,           \* outcome of the last cache or data-access operation
    \* ---- backtest (src/agent.py:4228-4393) ----
    bt             \* position and locals of the running backtest

retryVars == <<max_retries, base_delay, exponent, retries, delay, rpc, outcomes, sleeps, rresult, nest>>

cacheVars == <<disk, now, ticks, ret>>

vars == <<retryVars, cacheVars, bt>>

(***************************************************************************)
(* Bounds                                                                  *)
(***************************************************************************)
MaxRetriesBound == 3

BaseDelays == {1, 2}
Exponents == {1, 2, 3}
FuncValues == {"v1", "v2"}

(***************************************************************************)
(* Python values and JSON documents.  A value is a record [t, a, s]: t the *)
(* type, a the text of an atom, s the children of a container.  A dict is  *)
(* a sequence of items, an item holds <<key, value>>.                      *)
(***************************************************************************)
PyNone == [t |-> "NoneType", a |-> "None", s |-> <<>>]
PyBool(x) == [t |-> "bool", a |-> x, s |-> <<>>]
PyInt(x) == [t |-> "int", a |-> x, s |-> <<>>]
PyFloat(x) == [t |-> "float", a |-> x, s |-> <<>>]
PyStr(x) == [t |-> "str", a |-> x, s |-> <<>>]
PyList(xs) == [t |-> "list", a |-> "", s |-> xs]
PyTuple(xs) == [t |-> "tuple", a |-> "", s |-> xs]
PyItem(k, v) == [t |-> "item", a |-> "", s |-> <<k, v>>]
PyDict(items) == [t |-> "dict", a |-> "", s |-> items]
PySet(xs) == [t |-> "set", a |-> "", s |-> xs]

\* What is left in the file when json.dump raises part-way (or before its
\* first chunk): text that json.load rejects.
TruncatedDoc == [t |-> "truncated", a |-> "", s |-> <<>>]
\* Content of a file damaged outside the program.
GarbledDoc == [t |-> "garbled", a |-> "", s |-> <<>>]
NoDoc == [t |-> "nofile", a |-> "", s |-> <<>>]

\* JSONEncoder.default raises TypeError for anything but the JSON-able types.
RECURSIVE Serializable(_)
Serializable(p) ==
    CASE p.t \in {"NoneType", "bool", "int", "float", "str"} -> TRUE
      [] p.t \in {"list", "tuple"} -> \A i \in 1..Len(p.s) : Serializable(p.s[i])
      [] p.t = "dict" -> \A i \in 1..Len(p.s) :
                             /\ p.s[i].s[1].t \in {"NoneType", "bool", "int", "float", "str"}
                             /\ Serializable(p.s[i].s[2])
      [] p.t = "price_series" -> TRUE
      [] OTHER -> FALSE

\* The text json.dump writes for a dict key: str(key) for numbers, the JSON
\* literal for True/False/None.
KeyText(k) ==
    CASE k.t = "str" -> k.a
      [] k.t = "bool" -> (IF k.a = "True" THEN "true" ELSE "false")
      [] k.t = "NoneType" -> "null"
      [] OTHER -> k.a

\* json.dump(data, f, ensure_ascii=False, indent=2): the document written.
RECURSIVE json_dump(_)
json_dump(p) ==
    CASE p.t = "NoneType" -> [t |-> "null", a |-> "null", s |-> <<>>]
      [] p.t = "bool" -> [t |-> "bool", a |-> (IF p.a = "True" THEN "true" ELSE "false"), s |-> <<>>]
      [] p.t = "int" -> [t |-> "number-int", a |-> p.a, s |-> <<>>]
      [] p.t = "float" -> [t |-> "number-float", a |-> p.a, s |-> <<>>]
      [] p.t = "str" -> [t |-> "string", a |-> p.a, s |-> <<>>]
      [] p.t \in {"list", "tuple"} ->
            [t |-> "array", a |-> "", s |-> [i \in 1..Len(p.s) |-> json_dump(p.s[i])]]
      [] p.t = "dict" ->
            [t |-> "object", a |-> "",
             s |-> [i \in 1..Len(p.s) |->
                       [t |-> "member", a |-> KeyText(p.s[i].s[1]), s |-> <<json_dump(p.s[i].s[2])>>]]]
      [] p.t = "price_series" -> [p EXCEPT !.t = "price_series_doc"]

\* A JSON object with a repeated key loads as one entry holding the last value.
RECURSIVE LastOfEachKey(_, _)
LastOfEachKey(ms, i) ==
    IF i > Len(ms) THEN <<>>
    ELSE IF \E j \in (i + 1)..Len(ms) : ms[j].a = ms[i].a
         THEN LastOfEachKey(ms, i + 1)
         ELSE <<ms[i]>> \o LastOfEachKey(ms, i + 1)

\* json.load(f): the value parsed from a well-formed document.
RECURSIVE json_load(_)
json_load(d) ==
    CASE d.t = "null" -> PyNone
      [] d.t = "bool" -> PyBool(IF d.a = "true" THEN "True" ELSE "False")
      [] d.t = "number-int" -> PyInt(d.a)
      [] d.t = "number-float" -> PyFloat(d.a)
      [] d.t = "string" -> PyStr(d.a)
      [] d.t = "array" -> PyList([i \in 1..Len(d.s) |-> json_load(d.s[i])])
      [] d.t = "object" ->
            LET ms == LastOfEachKey(d.s, 1)
            IN PyDict([i \in 1..Len(ms) |-> PyItem(PyStr(ms[i].a), json_load(ms[i].s[1]))])
      [] d.t = "price_series_doc" -> [d EXCEPT !.t = "price_series"]

\* json.load raises JSONDecodeError on anything else.
Parseable(d) == d.t \notin {"truncated", "garbled", "nofile"}

\* The values of the JSON data model: what json.load can produce.
RECURSIVE InJsonDataModel(_)
InJsonDataModel(p) ==
    CASE p.t \in {"NoneType", "bool", "int", "float", "str"} -> TRUE
      [] p.t = "list" -> \A i \in 1..Len(p.s) : InJsonDataModel(p.s[i])
      [] p.t = "dict" -> /\ \A i \in 1..Len(p.s) :
                               /\ p.s[i].s[1].t = "str"
                               /\ InJsonDataModel(p.s[i].s[2])
                         /\ \A i, j \in 1..Len(p.s) : i # j => p.s[i].s[1] # p.s[j].s[1]
      [] OTHER -> FALSE

(***************************************************************************)
(* Cache Store: get_cache_file_path, is_cache_valid, get_cached_data,      *)
(* set_cached_data (src/agent.py:563-582)                                  *)
(***************************************************************************)
Absent == [exists |-> FALSE, content |-> NoDoc, mtime |-> 0]

NoRet == [op |-> "none", key |-> "", kind |-> "none", value |-> PyNone, called |-> FALSE, age |-> -1]

is_cache_valid_inclusive(d, t, k, days) ==
    /\ d[k].exists
    /\ t - d[k].mtime <= days

\* is_cache_valid(cache_file, days): the file exists and is younger than days.
is_cache_valid(d, t, k, days) ==
    /\ d[k].exists
    /\ t - d[k].mtime < days

\* The file after open(cache_file, 'w') and json.dump(data, f): the dump of a
\* serializable value, else the truncated text left behind by the TypeError.
FileAfterDump(data, t) ==
    [exists |-> TRUE,
     content |-> IF Serializable(data) THEN json_dump(data) ELSE TruncatedDoc,
     mtime |-> t]

DiskAfterSet_once(d, t, k, data) ==
    IF d[k].exists THEN d ELSE [d EXCEPT ![k] = FileAfterDump(data, t)]

\* The disk after set_cached_data(key, data) at time t.
DiskAfterSet(d, t, k, data) == [d EXCEPT ![k] = FileAfterDump(data, t)]

\* get_cached_data(key): [kind, value]; kind "raised" is json.load's
\* JSONDecodeError leaving the function.
CachedRead(d, k) ==
    IF d[k].exists
    THEN IF Parseable(d[k].content)
         THEN [kind |-> "ok", value |-> json_load(d[k].content)]
         ELSE [kind |-> "raised", value |-> PyNone]
    ELSE [kind |-> "ok", value |-> PyNone]

StoreKeys == {"k1", "k2"}

PyAtoms == {PyNone, PyBool("True"), PyInt("1"), PyFloat("NaN"), PyStr("1")}

\* Payloads handed to set_cached_data: atoms, lists, tuples, dicts keyed by
\* str or by int, and values json.dump rejects.
StorePayloads ==
    PyAtoms
    \cup {PyList(<<a>>) : a \in {PyInt("1"), PyNone}}
    \cup {PyList(<<PyInt("1"), PyStr("1")>>), PyTuple(<<PyInt("1"), PyStr("1")>>)}
    \cup {PyDict(<<PyItem(k, PyFloat("NaN"))>>) : k \in {PyStr("1"), PyInt("1"), PyStr("close")}}
    \cup {PyDict(<<PyItem(PyStr("data"), PyList(<<PyDict(<<PyItem(PyStr("close"), PyFloat("NaN"))>>)>>))>>)}
    \cup {PyDict(<<PyItem(PyStr("a"), PyTuple(<<PyInt("1")>>))>>)}
    \cup {PySet(<<PyInt("1")>>), PyDict(<<PyItem(PyStr("a"), PySet(<<PyInt("1")>>))>>)}

CacheIdle ==
    /\ disk = [k \in StoreKeys |-> Absent]
    /\ now = 0
    /\ ticks = 0
    /\ ret = NoRet

\* set_cached_data(key, data)
SetCachedData(k, data) ==
    /\ disk' = DiskAfterSet(disk, now, k, data)
    /\ ret' = [op |-> "set", key |-> k,
               kind |-> (IF Serializable(data) THEN "ok" ELSE "raised"),
               value |-> data, called |-> FALSE, age |-> -1]
    /\ UNCHANGED <<now, ticks>>

\* get_cached_data(key)
GetCachedData(k) ==
    /\ ret' = [op |-> "get", key |-> k,
               kind |-> CachedRead(disk, k).kind,
               value |-> CachedRead(disk, k).value, called |-> FALSE, age |-> -1]
    /\ UNCHANGED <<disk, now, ticks>>

\* The environment damages an existing cache file (disk fault, manual edit,
\* a process killed while writing).
DamageFile(k) ==
    /\ disk[k].exists
    /\ disk' = [disk EXCEPT ![k].content = GarbledDoc]
    /\ ret' = [op |-> "damage", key |-> k, kind |-> "ok", value |-> PyNone, called |-> FALSE, age |-> -1]
    /\ UNCHANGED <<now, ticks>>

(***************************************************************************)
(* The fetchers that read through the cache                                *)
(***************************************************************************)
\* Advancing datetime.now() by d days.
Tick(d) ==
    /\ now' = now + d
    /\ ticks' = ticks + 1
    /\ ret' = [NoRet EXCEPT !.op = "tick"]
    /\ UNCHANGED disk

\* Age of the cache file at time t, -1 when there is none.
FileAge(d, t, k) == IF d[k].exists THEN t - d[k].mtime ELSE -1

\* What the provider call did: "ok" it answered, "norows" it answered with an
\* error status or no rows, "error" it raised.
ProviderOutcomes == {"ok", "norows", "error"}

\* A read that removes the file it served.
ServeFromCache_consume(d, k, base) ==
    [disk |-> [d EXCEPT ![k] = Absent],
     ret |-> [base EXCEPT !.kind = IF CachedRead(d, k).kind = "ok" THEN "hit" ELSE "raised",
                          !.value = CachedRead(d, k).value]]

\* "return self.get_cached_data(cache_key)", the branch every fetcher takes when
\* is_cache_valid holds: [disk, ret]; nothing is written.
ServeFromCache(d, k, base) ==
    [disk |-> d,
     ret |-> [base EXCEPT !.kind = IF CachedRead(d, k).kind = "ok" THEN "hit" ELSE "raised",
                          !.value = CachedRead(d, k).value]]

\* ---- get_historical_data (src/agent.py:1132-1197) ----
NoDate == 0

HistKey(code, days) == "historical_data_" \o code \o "_" \o ToString(days)

\* The daily rows the market-data provider holds at time t: one per day 1..t.
\* A price-series payload is carried by the dates of its first and last row;
\* its rows are the provider's rows of those days (closing prices never change).
Close(d) == 10 + ((d * d) % 7)

PriceSeries(start_date, end_date, first, last) ==
    [t |-> "price_series", a |-> "", s |-> <<>>,
     start_date |-> start_date, end_date |-> end_date, first |-> first, last |-> last]

MaxOf(x, y) == IF x >= y THEN x ELSE y
MinOf(x, y) == IF x <= y THEN x ELSE y

\* The result of one execution of get_historical_data at time t on disk d:
\* [disk, ret].
HistoricalDataCall(d, t, code, start_date, end_date, days, o) ==
    LET k == HistKey(code, days)
        base == [op |-> "get_historical_data", key |-> k, kind |-> "raised", value |-> PyNone,
                 called |-> FALSE, age |-> FileAge(d, t, k)]
        e == IF end_date = NoDate THEN t ELSE end_date
        st == IF start_date = NoDate THEN t - days ELSE start_date
        first == MaxOf(st, 1)
        last == MinOf(e, t)
        data == PriceSeries(st, e, first, last)
    IN IF is_cache_valid(d, t, k, 1)
       THEN ServeFromCache(d, k, base)
       ELSE IF o = "ok" /\ first <= last
            THEN [disk |-> DiskAfterSet(d, t, k, data),
                  ret |-> [base EXCEPT !.kind = "fetched", !.value = data, !.called = TRUE]]
            ELSE [disk |-> d, ret |-> [base EXCEPT !.called = TRUE]]

get_historical_data(code, start_date, end_date, days, o) ==
    LET r == HistoricalDataCall(disk, now, code, start_date, end_date, days, o)
    IN /\ disk' = r.disk
       /\ ret' = r.ret
       /\ UNCHANGED <<now, ticks>>

\* ---- get_st (src/agent.py:2713-2757) ----
StKey(code) == "stock_st_" \o code

StRecord(code, is_st) ==
    PyDict(<<PyItem(PyStr("code"), PyStr(code)), PyItem(PyStr("is_st"), PyBool(is_st))>>)

\* The provider's isST column for the instrument: the modelled one is an ST stock.
ProviderIsST(code) == "True"

\* One execution of get_st at time t on disk d: [disk, ret].
StCall(d, t, code, o) ==
    LET k == StKey(code)
        base == [op |-> "get_st", key |-> k, kind |-> "raised", value |-> PyNone,
                 called |-> FALSE, age |-> FileAge(d, t, k)]
    IN IF is_cache_valid(d, t, k, 1)
       THEN ServeFromCache(d, k, base)
       ELSE IF o = "ok"
            THEN [disk |-> DiskAfterSet(d, t, k, StRecord(code, ProviderIsST(code))),
                  ret |-> [base EXCEPT !.kind = "fetched", !.called = TRUE,
                                       !.value = StRecord(code, ProviderIsST(code))]]
            ELSE IF o = "norows"
                 THEN \* is_st = False stays, and is cached
                      [disk |-> DiskAfterSet(d, t, k, StRecord(code, "False")),
                       ret |-> [base EXCEPT !.kind = "placeholder", !.called = TRUE,
                                            !.value = StRecord(code, "False")]]
                 ELSE [disk |-> d, ret |-> [base EXCEPT !.called = TRUE]]

get_st(code, o) ==
    LET r == StCall(disk, now, code, o)
    IN /\ disk' = r.disk
       /\ ret' = r.ret
       /\ UNCHANGED <<now, ticks>>

\* ---- get_industry_info (src/agent.py:776-1024) ----
InfoKey(code) == "industry_info_" \o code

IndustryRecord(code, industry, sw_industry) ==
    PyDict(<<PyItem(PyStr("code"), PyStr(code)),
             PyItem(PyStr("industry"), PyStr(industry)),
             PyItem(PyStr("sw_industry"), PyStr(sw_industry))>>)

\* known_industries, of which the model keeps the row of 600519
\* (industry "baijiu" = liquor, sw_industry "food_beverage").
known_industries == {"600519"}
KnownIndustryRow(code) == IndustryRecord(code, "baijiu", "food_beverage")

\* What the provider says of the other instrument, mapped through sw_industry_map.
ProviderIndustryRow(code) == IndustryRecord(code, "software", "computer")

\* The row built in the except branch: industry "unknown", sw_industry "misc"
\* (the guesses by code only match instruments of known_industries).
GuessedIndustryRow(code) == IndustryRecord(code, "unknown", "misc")

\* One execution of get_industry_info at time t on disk d: [disk, ret].
IndustryInfoCall(d, t, code, o) ==
    LET k == InfoKey(code)
        base == [op |-> "get_industry_info", key |-> k, kind |-> "raised", value |-> PyNone,
                 called |-> FALSE, age |-> FileAge(d, t, k)]
    IN IF code \in known_industries
       THEN [disk |-> DiskAfterSet(d, t, k, KnownIndustryRow(code)),
             ret |-> [base EXCEPT !.kind = "table", !.value = KnownIndustryRow(code)]]
       ELSE IF is_cache_valid(d, t, k, 90)
            THEN ServeFromCache(d, k, base)
            ELSE IF o = "ok"
                 THEN [disk |-> DiskAfterSet(d, t, k, ProviderIndustryRow(code)),
                       ret |-> [base EXCEPT !.kind = "fetched", !.called = TRUE,
                                            !.value = ProviderIndustryRow(code)]]
                 ELSE [disk |-> DiskAfterSet(d, t, k, GuessedIndustryRow(code)),
                       ret |-> [base EXCEPT !.kind = "placeholder", !.called = TRUE,
                                            !.value = GuessedIndustryRow(code)]]

get_industry_info(code, o) ==
    LET r == IndustryInfoCall(disk, now, code, o)
    IN /\ disk' = r.disk
       /\ ret' = r.ret
       /\ UNCHANGED <<now, ticks>>

\* ---- get_industry_components (src/agent.py:1026-1130) ----
ComponentsKey(industry_name) == "industry_components_" \o industry_name

\* The roster the provider returns, and known_industry_components["food_beverage"],
\* the list returned when the provider fails.
ProviderRoster(industry_name) == PyList(<<PyStr("300001"), PyStr("300002")>>)
FallbackRoster == PyList(<<PyStr("600519"), PyStr("000858"), PyStr("600887"), PyStr("603369"), PyStr("600779")>>)

\* One execution of get_industry_components at time t on disk d: [disk, ret].
IndustryComponentsCall(d, t, industry_name, o) ==
    LET k == ComponentsKey(industry_name)
        base == [op |-> "get_industry_components", key |-> k, kind |-> "raised", value |-> PyNone,
                 called |-> FALSE, age |-> FileAge(d, t, k)]
    IN IF is_cache_valid(d, t, k, 90)
       THEN ServeFromCache(d, k, base)
       ELSE IF o = "ok"
            THEN [disk |-> DiskAfterSet(d, t, k, ProviderRoster(industry_name)),
                  ret |-> [base EXCEPT !.kind = "fetched", !.called = TRUE,
                                       !.value = ProviderRoster(industry_name)]]
            ELSE [disk |-> d,
                  ret |-> [base EXCEPT !.kind = "fallback", !.called = TRUE, !.value = FallbackRoster]]

get_industry_components(industry_name, o) ==
    LET r == IndustryComponentsCall(disk, now, industry_name, o)
    IN /\ disk' = r.disk
       /\ ret' = r.ret
       /\ UNCHANGED <<now, ticks>>

\* ---- get_profit_data (src/agent.py:2066-2142) ----
ProfitKey(code, year, quarter) ==
    "profit_data_" \o code \o "_" \o ToString(year) \o "_" \o ToString(quarter)

ProfitRecord(roe, eps) == PyDict(<<PyItem(PyStr("roe"), roe), PyItem(PyStr("eps"), eps)>>)

\* The row the provider holds for the report period, and the record built
\* when it answers with an error status or no rows.
ProviderProfitRow == ProfitRecord(PyFloat("12.5"), PyFloat("0.8"))
EmptyProfitRow == ProfitRecord(PyNone, PyNone)

\* One execution of get_profit_data at time t on disk d: [disk, ret].
ProfitDataCall(d, t, code, year, quarter, o) ==
    LET k == ProfitKey(code, year, quarter)
        base == [op |-> "get_profit_data", key |-> k, kind |-> "raised", value |-> PyNone,
                 called |-> FALSE, age |-> FileAge(d, t, k)]
    IN IF is_cache_valid(d, t, k, 90)
       THEN ServeFromCache(d, k, base)
       ELSE IF o = "ok"
            THEN [disk |-> DiskAfterSet(d, t, k, ProviderProfitRow),
                  ret |-> [base EXCEPT !.kind = "fetched", !.value = ProviderProfitRow, !.called = TRUE]]
            ELSE IF o = "norows"
                 THEN [disk |-> DiskAfterSet(d, t, k, EmptyProfitRow),
                       ret |-> [base EXCEPT !.kind = "placeholder", !.value = EmptyProfitRow,
                                            !.called = TRUE]]
                 ELSE [disk |-> d, ret |-> [base EXCEPT !.called = TRUE]]

\* ---- get_turnover_rate (src/agent.py:1313-1371), get_stock_valuation_data
\* (2661-2711), get_historical_valuation_data (3184-3250): the fetchers of a
\* daily series whose cache key carries the requested end date ----
DatedKey(name, code, days, end_date) ==
    IF end_date # NoDate
    THEN name \o "_" \o code \o "_" \o ToString(days) \o "_" \o ToString(end_date)
    ELSE name \o "_" \o code \o "_" \o ToString(days)

\* The dict get_historical_valuation_data returns when no row came back.
EmptyValuationHistory == PyDict(<<PyItem(PyStr("petttm"), PyList(<<>>))>>)

\* One execution at time t on disk d: [disk, ret].  The series kept is carried
\* like a price series, by the dates of its first and last row.  empty_ok is
\* TRUE for get_historical_valuation_data, which returns an empty history
\* where the other two raise ValueError.
DatedSeriesCall(d, t, name, code, days, end_date, empty_ok, o) ==
    LET k == DatedKey(name, code, days, end_date)
        base == [op |-> name, key |-> k, kind |-> "raised", value |-> PyNone,
                 called |-> FALSE, age |-> FileAge(d, t, k)]
        e == IF end_date = NoDate THEN t ELSE end_date
        st == e - days
        first == MaxOf(st, 1)
        last == MinOf(e, t)
        data == PriceSeries(st, e, first, last)
    IN IF is_cache_valid(d, t, k, 1)
       THEN ServeFromCache(d, k, base)
       ELSE IF o = "ok" /\ first <= last
            THEN [disk |-> DiskAfterSet(d, t, k, data),
                  ret |-> [base EXCEPT !.kind = "fetched", !.value = data, !.called = TRUE]]
            ELSE IF o # "error" /\ empty_ok
                 THEN [disk |-> d,
                       ret |-> [base EXCEPT !.kind = "fallback", !.value = EmptyValuationHistory,
                                            !.called = TRUE]]
                 ELSE [disk |-> d, ret |-> [base EXCEPT !.called = TRUE]]

\* format_stock_code (src/agent.py:611-617); of the modelled instruments only
\* 600519 starts with '6'.
format_stock_code(code) == IF code = "600519" THEN "sh." \o code ELSE "sz." \o code

(***************************************************************************)
(* The turnover engine (src/agent.py:1373-1575)                            *)
(***************************************************************************)
\* The provider's rows of an instrument, fixed once published: 600519 falls
\* five yuan a day, the others follow Close.  Turn(d) is the day's turnover
\* in thousandths of a percent.
PriceOf(code, d) == IF code = "sh.600519" THEN 200 - 5 * d ELSE Close(d)
Turn(d) == 500 + 400 * (d % 3)

\* Floating circulating share capital, in 1e8 shares.
CirculatingShare(code) == IF code = "600519" THEN 12 ELSE 40

\* float(text) of a cached whole number.
MaxCapValue == 3000
ParseFloat(text) == CHOOSE n \in 0..MaxCapValue : ToString(n) = text

CapKey(code) == "circulating_market_cap_" \o code

\* One execution of get_circulating_market_cap at time t on disk d: [disk, ret].
\* The cache is read outside the try; whatever fails inside it yields 1000.0,
\* which is not cached.
CirculatingCapCall(d, t, code, o) ==
    LET k == CapKey(code)
        base == [op |-> "get_circulating_market_cap", key |-> k, kind |-> "raised", value |-> PyNone,
                 called |-> FALSE, age |-> FileAge(d, t, k)]
        cap == PyFloat(ToString(CirculatingShare(code) * PriceOf(format_stock_code(code), t)))
    IN IF is_cache_valid(d, t, k, 1)
       THEN ServeFromCache(d, k, base)
       ELSE IF o = "ok"
            THEN [disk |-> DiskAfterSet(d, t, k, cap),
                  ret |-> [base EXCEPT !.kind = "fetched", !.value = cap, !.called = TRUE]]
            ELSE [disk |-> d,
                  ret |-> [base EXCEPT !.kind = "fallback", !.value = PyFloat("1000"), !.called = TRUE]]

\* get_market_cap_group: the tiers, by circulating cap in 1e8 yuan
get_market_cap_group(circulating_cap) ==
    IF circulating_cap >= 2000 THEN "mega"
    ELSE IF circulating_cap >= 1000 THEN "super_large"
    ELSE IF circulating_cap >= 500 THEN "large"
    ELSE IF circulating_cap >= 200 THEN "mid"
    ELSE IF circulating_cap >= 50 THEN "small"
    ELSE IF circulating_cap >= 10 THEN "microA"
    ELSE "microB"

\* market_cap_benchmark, in units of 0.0001 (src/agent.py:393-401)
market_cap_benchmark ==
    [g \in {"mega", "super_large", "large", "mid", "small", "microA", "microB"} |->
        CASE g = "mega" -> 35
          [] g = "super_large" -> 65
          [] g = "large" -> 100
          [] g = "mid" -> 150
          [] g = "small" -> 230
          [] g = "microA" -> 400
          [] g = "microB" -> 1000]

\* get_industry_adjustment_factor, in tenths: of the modelled industries
\* industry_adjustment lists "computer" (1.5) and "food_beverage" (1.0); a name
\* it does not list gets 1.0.
get_industry_adjustment_factor(industry_name) ==
    IF industry_name = "computer" THEN 15 ELSE 10

\* The value a dict holds under a key.
DictGet(p, key) == p.s[CHOOSE i \in 1..Len(p.s) : p.s[i].s[1].a = key].s[2]

RECURSIVE SumTurn(_, _)
SumTurn(first, last) == IF first > last THEN 0 ELSE Turn(first) + SumTurn(first + 1, last)

\* The quotient with a zero denominator answered by 0.
calculate_rtr_zero(turn_sum, rows, benchmark, factor) ==
    IF rows * benchmark * factor = 0
    THEN [num |-> 0, den |-> 1]
    ELSE [num |-> turn_sum, den |-> rows * benchmark * factor]

\* calculate_rtr as a fraction: average_turnover over benchmark * 100 * factor,
\* 1.0 when that denominator is 0.
calculate_rtr(turn_sum, rows, benchmark, factor) ==
    IF rows * benchmark * factor = 0
    THEN [num |-> 1, den |-> 1]
    ELSE [num |-> turn_sum, den |-> rows * benchmark * factor]

\* The deviation with an overshoot and an undershoot weighed alike.
calculate_asymmetric_risk_deviation_symmetric(rtr) ==
    IF rtr.num > rtr.den
    THEN [num |-> (rtr.num - rtr.den) * 150, den |-> rtr.den]
    ELSE [num |-> (rtr.den - rtr.num) * 150, den |-> rtr.den]

\* calculate_asymmetric_risk_deviation, as a fraction
calculate_asymmetric_risk_deviation(rtr) ==
    IF rtr.num > rtr.den
    THEN [num |-> (rtr.num - rtr.den) * 150, den |-> rtr.den]
    ELSE [num |-> (rtr.den - rtr.num) * 30, den |-> rtr.den]

map_deviation_to_score(deviation) ==
    IF deviation.num < 10 * deviation.den THEN 100
    ELSE IF deviation.num < 20 * deviation.den THEN 85
    ELSE IF deviation.num < 40 * deviation.den THEN 70
    ELSE IF deviation.num < 70 * deviation.den THEN 55
    ELSE IF deviation.num < 100 * deviation.den THEN 40
    ELSE 25

\* What an engine hands back: a result dict, or the exception leaving it.
EngineResult(fields) == [t |-> "result", a |-> "", s |-> <<>>, fields |-> fields]
EngineRaised(exc) == [t |-> "exception", a |-> exc, s |-> <<>>]

\* The exception a fetcher that ended "raised" let out.
RaisedBy(r, o) ==
    IF ~r.called THEN "JSONDecodeError"
    ELSE IF o = "error" THEN "ProviderError" ELSE "ValueError"

\* One execution of calculate_turnover_analysis at time t on disk d: [disk, ret].
TurnoverAnalysisCall(d, t, code, end_date, o) ==
    LET base == [op |-> "calculate_turnover_analysis", key |-> code, kind |-> "raised",
                 value |-> PyNone, called |-> FALSE, age |-> -1]
        info == IndustryInfoCall(d, t, code, o)
        tr == DatedSeriesCall(info.disk, t, "turnover_rate", format_stock_code(code), 30, end_date, FALSE, o)
        cc == CirculatingCapCall(tr.disk, t, code, o)
        called == info.ret.called \/ tr.ret.called \/ cc.ret.called
        sources == <<info.ret.kind, tr.ret.kind, cc.ret.kind>>
        circulating_cap == ParseFloat(cc.ret.value.a)
        market_cap_group == get_market_cap_group(circulating_cap)
        rtr == calculate_rtr(SumTurn(tr.ret.value.first, tr.ret.value.last),
                             tr.ret.value.last - tr.ret.value.first + 1,
                             market_cap_benchmark[market_cap_group],
                             get_industry_adjustment_factor(DictGet(info.ret.value, "sw_industry").a))
        score == map_deviation_to_score(calculate_asymmetric_risk_deviation(rtr))
    IN IF info.ret.kind = "raised"
       THEN [disk |-> info.disk,
             ret |-> [base EXCEPT !.value = EngineRaised(RaisedBy(info.ret, o)), !.called = info.ret.called]]
       ELSE IF tr.ret.kind = "raised"
            THEN [disk |-> tr.disk,
                  ret |-> [base EXCEPT !.value = EngineRaised(RaisedBy(tr.ret, o)),
                                       !.called = info.ret.called \/ tr.ret.called]]
            ELSE IF cc.ret.kind = "raised"
                 THEN [disk |-> cc.disk,
                       ret |-> [base EXCEPT !.value = EngineRaised(RaisedBy(cc.ret, o)), !.called = called]]
                 ELSE [disk |-> cc.disk,
                       ret |-> [base EXCEPT !.kind = "score", !.called = called,
                                   !.value = EngineResult([circulating_market_cap |-> circulating_cap,
                                                           market_cap_group |-> market_cap_group,
                                                           rtr |-> rtr, score |-> score,
                                                           sources |-> sources])]]

calculate_turnover_analysis(code, end_date, o) ==
    LET r == TurnoverAnalysisCall(disk, now, code, end_date, o)
    IN /\ disk' = r.disk
       /\ ret' = r.ret
       /\ UNCHANGED <<now, ticks, bt>>

(***************************************************************************)
(* The RSI engine (src/agent.py:1577-1788).  An RSI value is the fraction  *)
(* [num, den]; averages are kept multiplied by a power of the period.      *)
(***************************************************************************)
RsiPeriod == 14

Rat(n, d) == [num |-> n, den |-> d]
RatLess(x, y) == x.num * y.den < y.num * x.den

\* x ** k
RECURSIVE Pow(_, _)
Pow(x, k) == IF k = 0 THEN 1 ELSE x * Pow(x, k - 1)

RECURSIVE SumSeq(_, _, _)
SumSeq(xs, i, j) == IF i > j THEN 0 ELSE xs[i] + SumSeq(xs, i + 1, j)

\* The plain sum over the period changes that end with the k-th value's last one.
SmoothedAvg_windowed(xs, k) == SumSeq(xs, k, RsiPeriod - 1 + k) * Pow(RsiPeriod, k - 1)

\* avg of the k-th RSI value times RsiPeriod^k: the plain mean of the first
\* period changes, then avg = (avg * (period - 1) + xs[i]) / period.
RECURSIVE SmoothedAvg(_, _)
SmoothedAvg(xs, k) ==
    IF k = 1
    THEN SumSeq(xs, 1, RsiPeriod)
    ELSE SmoothedAvg(xs, k - 1) * (RsiPeriod - 1)
         + xs[RsiPeriod - 1 + k] * Pow(RsiPeriod, k - 1)

\* calculate_rsi(prices): zeros when there are fewer than period + 1 prices,
\* else period - 1 zeros followed by the RSI values.
calculate_rsi(prices) ==
    LET n == Len(prices)
        gains == [i \in 1..(n - 1) |->
                     IF prices[i + 1] - prices[i] > 0 THEN prices[i + 1] - prices[i] ELSE 0]
        losses == [i \in 1..(n - 1) |->
                      IF prices[i + 1] - prices[i] > 0 THEN 0 ELSE prices[i] - prices[i + 1]]
        rsi(k) == IF SmoothedAvg(losses, k) = 0
                  THEN Rat(100, 1)
                  ELSE Rat(100 * SmoothedAvg(gains, k), SmoothedAvg(gains, k) + SmoothedAvg(losses, k))
    IN IF n < RsiPeriod + 1
       THEN [i \in 1..n |-> Rat(0, 1)]
       ELSE [i \in 1..(n - 1) |-> IF i <= RsiPeriod - 1 THEN Rat(0, 1) ELSE rsi(i - RsiPeriod + 1)]

\* xs[-n:]
LastN(xs, n) == IF Len(xs) <= n THEN xs ELSE SubSeq(xs, Len(xs) - n + 1, Len(xs))

\* xs.index(max(xs)) and xs.index(min(xs)) of a list of fractions, counted from 1
IndexOfMax(xs) ==
    CHOOSE i \in 1..Len(xs) :
        /\ \A j \in 1..Len(xs) : ~RatLess(xs[i], xs[j])
        /\ \A j \in 1..(i - 1) : RatLess(xs[j], xs[i])
IndexOfMin(xs) ==
    CHOOSE i \in 1..Len(xs) :
        /\ \A j \in 1..Len(xs) : ~RatLess(xs[j], xs[i])
        /\ \A j \in 1..(i - 1) : RatLess(xs[i], xs[j])

\* A list of prices as fractions.
AsRats(xs) == [i \in 1..Len(xs) |-> Rat(xs[i], 1)]

\* identify_rsi_signals(rsi_values, prices): [kind, signal_score]; kind is
\* "ZeroDivisionError" when a division by a zero price or a zero RSI is reached.
identify_rsi_signals(rsi_values, prices) ==
    LET recent_rsi == LastN(rsi_values, 14)
        recent_prices == LastN(prices, 14)
        m == Len(recent_prices)
        last_rsi == recent_rsi[Len(recent_rsi)]
        price_high_idx == IndexOfMax(AsRats(recent_prices))
        rsi_high == recent_rsi[IndexOfMax(recent_rsi)]
        price_low_idx == IndexOfMin(AsRats(recent_prices))
        rsi_low == recent_rsi[IndexOfMin(recent_rsi)]
        prev == recent_prices[m - 1]
        \* top divergence: the last price is the high, up 2% or more
        top_zero_price == price_high_idx = m /\ prev = 0
        top_reached == /\ price_high_idx = m
                       /\ (recent_prices[m] - prev) * 100 >= 2 * prev
                       /\ IndexOfMax(recent_rsi) # Len(recent_rsi)
        top_zero_rsi == top_reached /\ rsi_high.num = 0
        top == /\ top_reached
               /\ (last_rsi.num * rsi_high.den - rsi_high.num * last_rsi.den) * 100
                      <= -10 * rsi_high.num * last_rsi.den
        \* bottom divergence: the last price is the low, down 2% or more
        bottom_zero_price == price_low_idx = m /\ prev = 0
        bottom_reached == /\ price_low_idx = m
                          /\ (recent_prices[m] - prev) * 100 <= -2 * prev
                          /\ IndexOfMin(recent_rsi) # Len(recent_rsi)
        bottom_zero_rsi == bottom_reached /\ rsi_low.num = 0
        bottom == /\ bottom_reached
                  /\ (last_rsi.num * rsi_low.den - rsi_low.num * last_rsi.den) * 100
                         >= 10 * rsi_low.num * last_rsi.den
        last3 == LastN(recent_rsi, 3)
        overbought == \A i \in 1..3 : RatLess(Rat(65, 1), last3[i])
        oversold == \A i \in 1..3 : RatLess(last3[i], Rat(35, 1))
        total == (IF top THEN -15 ELSE 0) + (IF bottom THEN 15 ELSE 0)
                 + (IF overbought THEN -10 ELSE 0) + (IF oversold THEN 10 ELSE 0)
    IN IF Len(rsi_values) < 14 \/ Len(prices) < 14
       THEN [kind |-> "ok", signal_score |-> 0]
       ELSE IF top_zero_price \/ top_zero_rsi \/ bottom_zero_price \/ bottom_zero_rsi
            THEN [kind |-> "ZeroDivisionError", signal_score |-> 0]
            ELSE [kind |-> "ok", signal_score |-> MinOf(20, MaxOf(-20, total))]

\* One execution of calculate_rsi_analysis at time t on disk d: [disk, ret].
\* base_score and final_score are exp() of current_rsi and of a sigma computed
\* from the same price rows and cap group; the result carries their arguments.
RsiAnalysisCall(d, t, code, end_date, o) ==
    LET base == [op |-> "calculate_rsi_analysis", key |-> code, kind |-> "raised",
                 value |-> PyNone, called |-> FALSE, age |-> -1]
        h == HistoricalDataCall(d, t, format_stock_code(code), NoDate, end_date, 90, o)
        rows == h.ret.value
        prices == [i \in 1..(rows.last - rows.first + 1) |->
                      PriceOf(format_stock_code(code), rows.first + i - 1)]
        rsi_values == calculate_rsi(prices)
        current_rsi == IF rsi_values = <<>> THEN Rat(50, 1) ELSE rsi_values[Len(rsi_values)]
        cc == CirculatingCapCall(h.disk, t, code, o)
        called == h.ret.called \/ cc.ret.called
        market_cap_group == get_market_cap_group(ParseFloat(cc.ret.value.a))
        sig == identify_rsi_signals(rsi_values, prices)
        rsi_status == IF RatLess(Rat(70, 1), current_rsi) THEN "overbought"
                      ELSE IF RatLess(current_rsi, Rat(30, 1)) THEN "oversold" ELSE "neutral"
    IN IF h.ret.kind = "raised"
       THEN [disk |-> h.disk,
             ret |-> [base EXCEPT !.value = EngineRaised(RaisedBy(h.ret, o)), !.called = h.ret.called]]
       ELSE IF cc.ret.kind = "raised"
            THEN [disk |-> cc.disk,
                  ret |-> [base EXCEPT !.value = EngineRaised(RaisedBy(cc.ret, o)), !.called = called]]
            ELSE IF sig.kind # "ok"
                 THEN [disk |-> cc.disk,
                       ret |-> [base EXCEPT !.value = EngineRaised(sig.kind), !.called = called]]
                 ELSE [disk |-> cc.disk,
                       ret |-> [base EXCEPT !.kind = "score", !.called = called,
                                   !.value = EngineResult([current_rsi |-> current_rsi,
                                                           market_cap_group |-> market_cap_group,
                                                           signal_score |-> sig.signal_score,
                                                           rsi_status |-> rsi_status,
                                                           sources |-> <<h.ret.kind, cc.ret.kind>>])]]

calculate_rsi_analysis(code, end_date, o) ==
    LET r == RsiAnalysisCall(disk, now, code, end_date, o)
    IN /\ disk' = r.disk
       /\ ret' = r.ret
       /\ UNCHANGED <<now, ticks, bt>>

(***************************************************************************)
(* calculate_comprehensive_risk and backtest                               *)
(***************************************************************************)
\* The time-series and report reads of the seven engines, in the order
\* calculate_comprehensive_risk runs them (src/agent.py:4441-4468).  dated
\* tells whether the engine hands its end_date to the fetcher:
\* calculate_financial_health_analysis takes none and reads the fixed
\* 2025 third-quarter report (src/agent.py:3895-3901).
RiskAccesses ==
    <<[engine |-> "financial_health", fetch |-> "profit", name |-> "profit_data", days |-> 0,
       dated |-> FALSE, empty_ok |-> FALSE],
      [engine |-> "volatility", fetch |-> "hist", name |-> "historical_data", days |-> 252,
       dated |-> TRUE, empty_ok |-> FALSE],
      [engine |-> "valuation", fetch |-> "dated", name |-> "stock_valuation", days |-> 90,
       dated |-> TRUE, empty_ok |-> FALSE],
      [engine |-> "historical_valuation", fetch |-> "dated", name |-> "historical_valuation", days |-> 1095,
       dated |-> TRUE, empty_ok |-> TRUE],
      [engine |-> "trend", fetch |-> "hist", name |-> "historical_data", days |-> 300,
       dated |-> TRUE, empty_ok |-> FALSE],
      [engine |-> "turnover", fetch |-> "dated", name |-> "turnover_rate", days |-> 30,
       dated |-> TRUE, empty_ok |-> FALSE],
      [engine |-> "rsi", fetch |-> "hist", name |-> "historical_data", days |-> 90,
       dated |-> TRUE, empty_ok |-> FALSE]>>

\* The fetch one engine makes at time t on disk d: [disk, ret].
AccessCall(d, t, a, code, end_date, o) ==
    CASE a.fetch = "profit" -> ProfitDataCall(d, t, format_stock_code(code), 2025, 3, o)
      [] a.fetch = "hist" ->
            HistoricalDataCall(d, t, format_stock_code(code), NoDate, end_date, a.days, o)
      [] a.fetch = "dated" ->
            DatedSeriesCall(d, t, a.name, format_stock_code(code), a.days, end_date, a.empty_ok, o)

\* The engines from the i-th on: [disk, kind, inputs].  An engine re-raises what
\* its fetcher raised, and so does calculate_comprehensive_risk.
RECURSIVE RunAccesses(_, _, _, _, _, _, _)
RunAccesses(d, t, code, end_date, o, i, inputs) ==
    IF i > Len(RiskAccesses)
    THEN [disk |-> d, kind |-> "ok", inputs |-> inputs]
    ELSE LET a == RiskAccesses[i]
             r == AccessCall(d, t, a, code, end_date, o)
         IN IF r.ret.kind = "raised"
            THEN [disk |-> r.disk, kind |-> "raised", inputs |-> inputs]
            ELSE RunAccesses(r.disk, t, code, end_date, o, i + 1,
                             Append(inputs, [engine |-> a.engine, key |-> r.ret.key,
                                             kind |-> r.ret.kind, value |-> r.ret.value]))

\* One execution of calculate_comprehensive_risk(code, end_date) at time t on
\* disk d: [disk, kind, inputs], inputs the payload each engine scored.
ComprehensiveRiskCall(d, t, code, end_date, o) == RunAccesses(d, t, code, end_date, o, 1, <<>>)

\* An ad-hoc query: calculate_comprehensive_risk(code) outside a backtest.
calculate_comprehensive_risk(code, end_date, o) ==
    LET r == ComprehensiveRiskCall(disk, now, code, end_date, o)
    IN /\ bt.pc = "idle"
       /\ disk' = r.disk
       /\ ret' = [op |-> "calculate_comprehensive_risk", key |-> code, kind |-> r.kind,
                  value |-> PyNone,
                  called |-> (r.kind = "raised" \/ \E i \in 1..Len(r.inputs) : r.inputs[i].kind # "hit"),
                  age |-> -1]
       /\ UNCHANGED <<now, ticks, bt>>

\* ---- backtest (src/agent.py:4228-4393) ----
BacktestIdle ==
    [pc |-> "idle", code |-> "", rebalance_period |-> 0, first |-> 0, last |-> 0,
     dates |-> <<>>, i |-> 0, results |-> <<>>]

\* len(historical_data_before_test) < 30: the test date is skipped
MinHistoryRows == 30

\* df['date'].iloc[::rebalance_period], then the last date when it is not one
\* of them; df holds the rows of the days first..last.
BacktestDates(first, last, p) ==
    LET n == last - first + 1
        m == ((n - 1) \div p) + 1
        strided == [j \in 1..m |-> first + (j - 1) * p]
    IN IF strided[m] = last THEN strided ELSE Append(strided, last)

\* future_row = df[df['date'] > test_date]; future_row.iloc[0]['close'], and
\* the close of test_date itself when there is no later row.
FuturePrice(test_date, last, p) ==
    IF test_date < last THEN Close(test_date + 1) ELSE Close(test_date)

\* backtest(code, start_date, end_date, rebalance_period) up to the loop: the
\* full history is read through the cache and the test dates are laid out.
BacktestStart(code, start_date, end_date, p, o) ==
    LET r == HistoricalDataCall(disk, now, format_stock_code(code), start_date, end_date, 1000, o)
        v == r.ret.value
    IN /\ bt.pc = "idle"
       /\ disk' = r.disk
       /\ ret' = [r.ret EXCEPT !.op = "backtest"]
       /\ bt' = IF r.ret.kind \in {"hit", "fetched"}
                THEN [pc |-> "loop", code |-> code, rebalance_period |-> p,
                      first |-> v.first, last |-> v.last,
                      dates |-> BacktestDates(v.first, v.last, p), i |-> 1, results |-> <<>>]
                ELSE [BacktestIdle EXCEPT !.pc = "failed", !.code = code, !.rebalance_period = p]
       /\ UNCHANGED <<now, ticks>>

\* One turn of "for i, test_date in enumerate(backtest_dates)".
BacktestStep(o) ==
    LET test_date == bt.dates[bt.i]
        current_price == Close(test_date)
        future_price == FuturePrice(test_date, bt.last, bt.rebalance_period)
        cr == ComprehensiveRiskCall(disk, now, bt.code, test_date, o)
        record == [date |-> test_date, current_price |-> current_price,
                   future_price |-> future_price,
                   \* future_return, as numerator and denominator
                   return_num |-> future_price - current_price,
                   return_den |-> current_price,
                   inputs |-> cr.inputs]
    IN /\ bt.pc = "loop"
       /\ bt.i <= Len(bt.dates)
       /\ IF test_date - bt.first + 1 < MinHistoryRows
          THEN /\ bt' = [bt EXCEPT !.i = bt.i + 1]
               /\ ret' = [NoRet EXCEPT !.op = "backtest_step", !.kind = "skipped"]
               /\ UNCHANGED disk
          ELSE /\ disk' = cr.disk
               /\ ret' = [NoRet EXCEPT !.op = "backtest_step", !.kind = cr.kind]
               /\ bt' = IF cr.kind = "ok"
                        THEN [bt EXCEPT !.i = bt.i + 1, !.results = Append(bt.results, record)]
                        ELSE [bt EXCEPT !.i = bt.i + 1]
       /\ UNCHANGED <<now, ticks>>

\* After the loop: None when no record was produced, else the records.
BacktestFinish ==
    /\ bt.pc = "loop"
    /\ bt.i > Len(bt.dates)
    /\ bt' = [bt EXCEPT !.pc = IF bt.results = <<>> THEN "failed" ELSE "done"]
    /\ ret' = [NoRet EXCEPT !.op = "backtest_return",
                            !.kind = IF bt.results = <<>> THEN "none" ELSE "ok"]
    /\ UNCHANGED <<disk, now, ticks>>

(***************************************************************************)
(* retry_with_backoff                                                      *)
(***************************************************************************)
\* The substrings the wrapper looks for in str(e).
NetworkMarkers == {"10060", "10054", "10057", "ConnectionError", "TimeoutError"}

\* An exception is modelled by the set of tell-tale substrings its message holds.
Exceptions == {{}, {"ValueError"}, {"10054"}, {"TimeoutError"}, {"ConnectionError", "10060"}}

\* any(error_code in str(e) for error_code in [...])
IsNetworkError(e) == e \cap NetworkMarkers # {}

\* while retries < max_retries
LoopContinues(r, n) == r < n

RetriesExhausted_late(r, n) == r = n + 1

\* if retries == max_retries: raise
RetriesExhausted(r, n) == r = n

NextDelay_add(d, x) == d + x

\* delay *= exponent
NextDelay(d, x) == d * x

\* No chain of decorated functions is running.
NestIdle ==
    [pc |-> "idle", depth |-> 0, frames |-> <<>>, level |-> 0, exc |-> {},
     calls |-> 0, transient |-> TRUE, slept |-> 0]

RetryIdle ==
    /\ nest = NestIdle
    /\ max_retries = 0
    /\ base_delay = 1
    /\ exponent = 1
    /\ retries = 0
    /\ delay = 1
    /\ rpc = "idle"
    /\ outcomes = <<>>
    /\ sleeps = <<>>
    /\ rresult = "None"

\* wrapper(*args, **kwargs) is entered: retries = 0, delay = base_delay,
\* then the first evaluation of the loop condition.
WrapperCall(n, b, x) ==
    /\ rpc \in {"idle", "returned", "raised"}
    /\ max_retries' = n
    /\ base_delay' = b
    /\ exponent' = x
    /\ retries' = 0
    /\ delay' = b
    /\ outcomes' = <<>>
    /\ sleeps' = <<>>
    /\ rresult' = "None"
    /\ rpc' = IF LoopContinues(0, n) THEN "loop" ELSE "returned"
    /\ UNCHANGED <<nest, cacheVars>>

\* return func(*args, **kwargs) succeeds with value v
AttemptReturns(v) ==
    /\ rpc = "loop"
    /\ outcomes' = Append(outcomes, [kind |-> "ok", val |-> v, exc |-> {}])
    /\ rresult' = v
    /\ rpc' = "returned"
    /\ UNCHANGED <<max_retries, base_delay, exponent, retries, delay, sleeps>>
    /\ UNCHANGED <<nest, cacheVars>>

\* func raises e: the except branch, and the next loop test when it sleeps
AttemptRaises(e) ==
    /\ rpc = "loop"
    /\ outcomes' = Append(outcomes, [kind |-> "raise", val |-> "None", exc |-> e])
    /\ retries' = retries + 1
    /\ IF RetriesExhausted(retries + 1, max_retries)
       THEN /\ rpc' = "raised"
            /\ UNCHANGED <<delay, sleeps>>
       ELSE IF IsNetworkError(e)
            THEN /\ sleeps' = Append(sleeps, delay)
                 /\ delay' = NextDelay(delay, exponent)
                 /\ rpc' = IF LoopContinues(retries + 1, max_retries) THEN "loop" ELSE "returned"
            ELSE /\ rpc' = "raised"
                 /\ UNCHANGED <<delay, sleeps>>
    /\ UNCHANGED <<max_retries, base_delay, exponent, rresult>>
    /\ UNCHANGED <<nest, cacheVars>>

InitRetry == RetryIdle /\ CacheIdle /\ bt = BacktestIdle

NextRetry ==
    \/ \E n \in 0..MaxRetriesBound, b \in BaseDelays, x \in Exponents : WrapperCall(n, b, x) /\ UNCHANGED bt
    \/ \E v \in FuncValues : AttemptReturns(v) /\ UNCHANGED bt
    \/ \E e \in Exceptions : AttemptRaises(e) /\ UNCHANGED bt

SpecRetry == InitRetry /\ [][NextRetry]_vars

IsTransientFailure(o) == o.kind = "raise" /\ IsNetworkError(o.exc)
IsPermanentFailure(o) == o.kind = "raise" /\ ~IsNetworkError(o.exc)

\* C1: with max_retries = N >= 1 one wrapper call executes the wrapped function
\* at most N times; every execution but the last was a transient failure, so a
\* failure without a network marker is re-raised by the execution that met it
\* (after exactly one execution when it is the first); N transient failures in
\* a row are re-raised after exactly N executions; a successful execution ends
\* the loop and its value is what the wrapper returns.
RetryBoundedAndPropagates ==
    max_retries >= 1 =>
        /\ Len(outcomes) <= max_retries
        /\ \A i \in 1..(Len(outcomes) - 1) : IsTransientFailure(outcomes[i])
        /\ rpc = "loop" => /\ Len(outcomes) < max_retries
                           /\ \A i \in 1..Len(outcomes) : IsTransientFailure(outcomes[i])
        /\ rpc = "raised" => /\ Len(outcomes) >= 1
                             /\ outcomes[Len(outcomes)].kind = "raise"
                             /\ \/ IsPermanentFailure(outcomes[Len(outcomes)])
                                \/ Len(outcomes) = max_retries
        /\ rpc = "returned" => /\ Len(outcomes) >= 1
                               /\ outcomes[Len(outcomes)].kind = "ok"
                               /\ rresult = outcomes[Len(outcomes)].val
        /\ (Len(outcomes) >= 1 /\ IsPermanentFailure(outcomes[1])) =>
               (Len(outcomes) = 1 /\ rpc = "raised")
        /\ (Len(outcomes) = max_retries /\ \A i \in 1..Len(outcomes) : IsTransientFailure(outcomes[i])) =>
               rpc = "raised"

\* Witness of C1: three transient failures in a row with max_retries = 3, re-raised.
RetryExhaustedReached ==
    /\ max_retries = 3
    /\ rpc = "raised"
    /\ Len(outcomes) = 3
    /\ \A i \in 1..3 : IsTransientFailure(outcomes[i])

\* C2: the k-th sleep of a wrapper call lasts base_delay * exponent^(k-1); there
\* are at most max_retries-1 sleeps; a sleep is always followed by another
\* attempt, so none follows the final failed attempt or a non-transient failure.
BackoffSchedule ==
    max_retries >= 1 =>
        /\ \A k \in 1..Len(sleeps) : sleeps[k] = base_delay * Pow(exponent, k - 1)
        /\ Len(sleeps) <= max_retries - 1
        /\ rpc = "loop" => Len(sleeps) = Len(outcomes)
        /\ rpc \in {"raised", "returned"} => Len(sleeps) = Len(outcomes) - 1

\* Witness of C2: two sleeps with base 1 and exponent 2, i.e. 1s then 2s.
BackoffTwoSleepsReached ==
    /\ base_delay = 1
    /\ exponent = 2
    /\ sleeps = <<1, 2>>
    /\ rpc = "raised"

(***************************************************************************)
(* Decorated functions calling decorated functions: an engine wrapped by   *)
(* retry_with_backoff calls get_historical_data, itself wrapped, and       *)
(* calculate_comprehensive_risk, wrapped too, calls the engine.  frames[1] *)
(* is the outermost wrapper, frames[depth] the wrapper of the fetch, whose *)
(* body holds the provider call.                                           *)
(***************************************************************************)
MaxNesting == 3

\* @retry_with_backoff(max_retries=3, base_delay=1.0) with the default exponent
DecoratorRetries == 3
DecoratorBaseDelay == 1
DecoratorExponent == 2

\* What the provider call may raise: transient (a network marker in the
\* message) or not.
ProviderErrors == {{"10054"}, {"ConnectionError", "10060"}, {"ValueError"}}

\* wrapper is entered: retries = 0, delay = base_delay
NewFrame == [retries |-> 0, delay |-> DecoratorBaseDelay]

Reraise_wrapped(e) == {}

\* except Exception as e: print(...); raise  -- the body of an engine hands
\* the exception of the function it called to its own wrapper unchanged
Reraise(e) == e

RECURSIVE Power(_, _)
Power(b, k) == IF k = 0 THEN 1 ELSE b * Power(b, k - 1)

\* A chain of d decorated functions is entered from outside: every wrapper
\* on the way down starts its loop, and the innermost body reaches the
\* provider call.
EnterChain(d) ==
    /\ nest.pc \in {"idle", "returned", "raised"}
    /\ LoopContinues(0, DecoratorRetries)
    /\ nest' = [pc |-> "provider", depth |-> d, frames |-> [k \in 1..d |-> NewFrame],
                level |-> d, exc |-> {}, calls |-> 0, transient |-> TRUE, slept |-> 0]

\* The provider call succeeds: every function of the chain returns.
ProviderReturns ==
    /\ nest.pc = "provider"
    /\ nest' = [nest EXCEPT !.calls = @ + 1, !.pc = "returned", !.level = 0]

\* The provider call raises e inside the innermost body.
ProviderRaises(e) ==
    /\ nest.pc = "provider"
    /\ nest' = [nest EXCEPT !.calls = @ + 1, !.exc = e, !.pc = "except",
                            !.transient = @ /\ IsNetworkError(e)]

\* The except branch of the wrapper at nest.level: it raises to its caller
\* when its retries are used up or the error is no network error, and
\* otherwise sleeps and calls its function again, which enters every wrapper
\* below it anew.
FrameHandles ==
    /\ nest.pc = "except"
    /\ LET k == nest.level
           r == nest.frames[k].retries + 1
           d == nest.frames[k].delay
       IN IF RetriesExhausted(r, DecoratorRetries) \/ ~IsNetworkError(nest.exc)
          THEN nest' = [nest EXCEPT !.frames[k].retries = r,
                                    !.level = k - 1,
                                    !.exc = IF k = 1 THEN @ ELSE Reraise(@),
                                    !.pc = IF k = 1 THEN "raised" ELSE "except"]
          ELSE /\ LoopContinues(r, DecoratorRetries)
               /\ nest' = [nest EXCEPT
                             !.frames = [j \in 1..nest.depth |->
                                           IF j = k THEN [retries |-> r, delay |-> NextDelay(d, DecoratorExponent)]
                                           ELSE IF j > k THEN NewFrame
                                           ELSE @[j]],
                             !.level = nest.depth,
                             !.slept = @ + d,
                             !.pc = "provider"]

nestedRest == <<max_retries, base_delay, exponent, retries, delay, rpc, outcomes, sleeps, rresult>>

InitNested == RetryIdle /\ CacheIdle /\ bt = BacktestIdle

NextNested ==
    \/ \E d \in 1..MaxNesting : EnterChain(d) /\ UNCHANGED <<nestedRest, cacheVars, bt>>
    \/ ProviderReturns /\ UNCHANGED <<nestedRest, cacheVars, bt>>
    \/ \E e \in ProviderErrors : ProviderRaises(e) /\ UNCHANGED <<nestedRest, cacheVars, bt>>
    \/ FrameHandles /\ UNCHANGED <<nestedRest, cacheVars, bt>>

SpecNested == InitNested /\ [][NextNested]_vars

\* C26: retry policies multiply when decorated functions call one another:
\* a chain of d wrappers whose provider call fails with a network error every
\* time gives up only after max_retries^d executions of the provider call
\* (9 for an engine over the fetch, 27 under calculate_comprehensive_risk),
\* and never before; an error that is no network error ends it at once.
NestedRetriesMultiply ==
    /\ nest.calls <= Power(DecoratorRetries, nest.depth)
    /\ (nest.pc = "raised" /\ nest.transient) =>
           nest.calls = Power(DecoratorRetries, nest.depth)
    /\ (nest.pc = "raised" /\ nest.depth >= 2 /\ nest.transient) =>
           nest.calls > DecoratorRetries

\* An engine over get_historical_data has given up after nine provider calls.
NineProviderCallsBeforeGivingUp ==
    /\ nest.pc = "raised"
    /\ nest.depth = 2
    /\ nest.transient
    /\ nest.calls = 9
    /\ IsNetworkError(nest.exc)

(***************************************************************************)
(* The cache store on its own                                              *)
(***************************************************************************)
InitStore == RetryIdle /\ CacheIdle /\ bt = BacktestIdle

NextStore ==
    \/ \E k \in StoreKeys, p \in StorePayloads : SetCachedData(k, p) /\ UNCHANGED <<retryVars, bt>>
    \/ \E k \in StoreKeys : GetCachedData(k) /\ UNCHANGED <<retryVars, bt>>
    \/ \E k \in StoreKeys : DamageFile(k) /\ UNCHANGED <<retryVars, bt>>

SpecStore == InitStore /\ [][NextStore]_vars

\* C3: a cache file that exists but cannot be parsed is a cache miss:
\* get_cached_data returns None for it and no exception leaves the function.
CorruptFileIsCacheMiss ==
    (ret.op = "get" /\ disk[ret.key].exists /\ ~Parseable(disk[ret.key].content)) =>
        (ret.kind = "ok" /\ ret.value = PyNone)

\* C4 as stated: set_cached_data(key, payload) directly followed by
\* get_cached_data(key) returns payload, for every payload json.dump accepts,
\* whatever the file held before; get on a key with no file returns None.
RoundTripEverySerializablePayload ==
    [][/\ (ret.op = "set" /\ ret.kind = "ok" /\ ret'.op = "get" /\ ret'.key = ret.key) =>
              (ret'.kind = "ok" /\ ret'.value = ret.value)
       /\ (ret'.op = "get" /\ ~disk[ret'.key].exists) =>
              (ret'.kind = "ok" /\ ret'.value = PyNone)]_vars

\* C4 amended: the round trip returns the payload for every payload of the JSON
\* data model (None, booleans, numbers, strings, lists, dicts with distinct
\* string keys), whatever the file held before; get on a key with no file
\* returns None.
RoundTripJsonDataModel ==
    [][/\ (ret.op = "set" /\ ret.kind = "ok" /\ InJsonDataModel(ret.value)
            /\ ret'.op = "get" /\ ret'.key = ret.key) =>
              (ret'.kind = "ok" /\ ret'.value = ret.value)
       /\ (ret'.op = "get" /\ ~disk[ret'.key].exists) =>
              (ret'.kind = "ok" /\ ret'.value = PyNone)]_vars

\* Witness of C4: a get that returned the nested price-series payload from a
\* file while the other key's file holds something else.
RoundTripNestedPayloadRead ==
    /\ ret.op = "get"
    /\ ret.key = "k1"
    /\ ret.kind = "ok"
    /\ ret.value = PyDict(<<PyItem(PyStr("data"), PyList(<<PyDict(<<PyItem(PyStr("close"), PyFloat("NaN"))>>)>>))>>)
    /\ disk["k2"].exists
    /\ disk["k2"].content # disk["k1"].content

(***************************************************************************)
(* The fetchers, the cache and the clock                                   *)
(***************************************************************************)
MaxTicks == 1
ClockSteps == {1, 90}

FetchKeys == {HistKey("sz.300001", 252), StKey("sz.300001"), InfoKey("300001"), InfoKey("600519"),
              ComponentsKey("computer")}

InitFetch ==
    /\ RetryIdle
    /\ disk = [k \in FetchKeys |-> Absent]
    /\ now = 1
    /\ ticks = 0
    /\ ret = NoRet
    /\ bt = BacktestIdle

NextFetch ==
    \/ \E o \in ProviderOutcomes :
          get_historical_data("sz.300001", NoDate, NoDate, 252, o) /\ UNCHANGED <<retryVars, bt>>
    \/ \E o \in ProviderOutcomes : get_st("sz.300001", o) /\ UNCHANGED <<retryVars, bt>>
    \/ \E c \in {"300001", "600519"}, o \in ProviderOutcomes : get_industry_info(c, o) /\ UNCHANGED <<retryVars, bt>>
    \/ \E o \in ProviderOutcomes : get_industry_components("computer", o) /\ UNCHANGED <<retryVars, bt>>
    \/ \E d \in ClockSteps : ticks < MaxTicks /\ Tick(d) /\ UNCHANGED <<retryVars, bt>>

SpecFetch == InitFetch /\ [][NextFetch]_vars

FetchOps == {"get_historical_data", "get_st", "get_industry_info", "get_industry_components"}

\* The TTL, in days, the specification gives each data category.
ClaimedTtl(op) == IF op \in {"get_historical_data", "get_st"} THEN 1 ELSE 90

EntryExpiredOrMissing(k, op) == ~disk[k].exists \/ now - disk[k].mtime >= ClaimedTtl(op)

ProviderFailureLeavesCacheUnchanged ==
    [][(ret'.op \in FetchOps /\ ret'.called /\ ret'.kind # "fetched") => disk' = disk]_vars

(***************************************************************************)
(* The industry roster, its cache file and the clock                       *)
(***************************************************************************)
RosterIndustries == {"computer", "bank", "food_beverage"}

RosterKeys == {ComponentsKey(i) : i \in RosterIndustries}

InitRoster ==
    /\ RetryIdle
    /\ disk = [k \in RosterKeys |-> Absent]
    /\ now = 1
    /\ ticks = 0
    /\ ret = NoRet
    /\ bt = BacktestIdle

NextRoster ==
    \/ \E i \in RosterIndustries, o \in ProviderOutcomes :
          get_industry_components(i, o) /\ UNCHANGED <<retryVars, bt>>
    \/ \E k \in RosterKeys : DamageFile(k) /\ UNCHANGED <<retryVars, bt>>
    \/ \E d \in ClockSteps : ticks < MaxTicks /\ Tick(d) /\ UNCHANGED <<retryVars, bt>>

SpecRoster == InitRoster /\ [][NextRoster]_vars

\* C30: get_industry_components never raises and never returns an empty
\* roster: when the cache does not answer and the provider fails or yields no
\* valid code it returns the five codes of the food-and-beverage industry,
\* whatever industry was asked for, and leaves the cache as it was; a roster
\* is in the cache only if a provider returned it, non-empty.
RosterNeverEmptyNeverRaises ==
    /\ ret.op = "get_industry_components" =>
          /\ ret.kind # "raised"
          /\ ret.value.t = "list"
          /\ ret.value.s # <<>>
          /\ ret.kind = "fallback" => ret.value = FallbackRoster
    /\ \A k \in RosterKeys :
          (disk[k].exists /\ Parseable(disk[k].content)) =>
              (json_load(disk[k].content).t = "list" /\ json_load(disk[k].content).s # <<>>)

(***************************************************************************)
(* A backtest run after ad-hoc queries                                     *)
(***************************************************************************)
\* datetime.now() at the start, in trading days since the instrument's first row
BacktestToday == 34

BacktestCode == "300001"
BacktestEndDates == {BacktestToday - 2, BacktestToday}
RebalancePeriods == {2, 3}

BacktestKeys ==
    {ProfitKey(format_stock_code(BacktestCode), 2025, 3)}
    \cup {HistKey(format_stock_code(BacktestCode), n) : n \in {1000, 252, 300, 90}}
    \cup {DatedKey(RiskAccesses[i].name, format_stock_code(BacktestCode), RiskAccesses[i].days, e) :
             i \in {3, 4, 6}, e \in 0..(BacktestToday + MaxTicks)}

InitBacktest ==
    /\ RetryIdle
    /\ disk = [k \in BacktestKeys |-> Absent]
    /\ now = BacktestToday
    /\ ticks = 0
    /\ ret = NoRet
    /\ bt = BacktestIdle

NextBacktest ==
    \/ \E o \in ProviderOutcomes :
          calculate_comprehensive_risk(BacktestCode, NoDate, o) /\ UNCHANGED retryVars
    \/ \E e \in BacktestEndDates, p \in RebalancePeriods, o \in ProviderOutcomes :
          BacktestStart(BacktestCode, 1, e, p, o) /\ UNCHANGED retryVars
    \/ \E o \in ProviderOutcomes : BacktestStep(o) /\ UNCHANGED retryVars
    \/ BacktestFinish /\ UNCHANGED retryVars
    \/ ticks < MaxTicks /\ bt.pc = "idle" /\ Tick(1) /\ UNCHANGED <<retryVars, bt>>

SpecBacktest == InitBacktest /\ [][NextBacktest]_vars

\* An engine input is as-of d when it is a series requested with end date d
\* whose last row is dated d or earlier, or holds no data at all.
InputAsOf(in, d) ==
    \/ in.kind = "fallback"
    \/ /\ in.value.t = "price_series"
       /\ in.value.end_date = d
       /\ in.value.last <= d

\* C7: every sub-score behind the record of rebalance date d was computed from
\* data dated <= d and fetched as-of d, whatever the cache held before the run
\* and whatever earlier rebalance dates or ad-hoc queries cached.
BacktestAsOfDiscipline ==
    \A i \in 1..Len(bt.results) :
        \A j \in 1..Len(bt.results[i].inputs) :
            InputAsOf(bt.results[i].inputs[j], bt.results[i].date)

\* C8: in every record future_price is the close rebalance_period rows after
\* the rebalance date (the next rebalance date) and future_return is
\* (future_price - price_at_date) / price_at_date; when no later price exists
\* future_price is the price at the date and future_return is 0.
FutureReturnOverNextInterval ==
    \A i \in 1..Len(bt.results) :
        LET r == bt.results[i]
        IN /\ r.current_price = Close(r.date)
           /\ r.date + bt.rebalance_period <= bt.last =>
                  r.future_price = Close(r.date + bt.rebalance_period)
           /\ r.return_num = r.future_price - r.current_price
           /\ r.return_den = r.current_price
           /\ r.date = bt.last => (r.future_price = r.current_price /\ r.return_num = 0)

(***************************************************************************)
(* The sub-score engines over the cache                                    *)
(***************************************************************************)
\* datetime.now() at the start, in trading days since the instruments' first row
EngineToday == 13

EngineCodes == {"300001", "600519"}

EngineKeys ==
    UNION {{InfoKey(c), CapKey(c), HistKey(format_stock_code(c), 90),
            DatedKey("turnover_rate", format_stock_code(c), 30, NoDate)} : c \in EngineCodes}

InitEngine ==
    /\ RetryIdle
    /\ disk = [k \in EngineKeys |-> Absent]
    /\ now = EngineToday
    /\ ticks = 0
    /\ ret = NoRet
    /\ bt = BacktestIdle

NextEngine ==
    \/ \E c \in EngineCodes, o \in ProviderOutcomes :
          calculate_turnover_analysis(c, NoDate, o) /\ UNCHANGED retryVars
    \/ \E c \in EngineCodes, o \in ProviderOutcomes :
          calculate_rsi_analysis(c, NoDate, o) /\ UNCHANGED retryVars
    \/ ticks < MaxTicks /\ Tick(1) /\ UNCHANGED <<retryVars, bt>>

SpecEngine == InitEngine /\ [][NextEngine]_vars

EngineOps == {"calculate_turnover_analysis", "calculate_rsi_analysis"}

\* The engine call that ended in r scored, and every input of it came out of
\* the cache (or, for the industry of a known_industries instrument, out of
\* the built-in table, which is never read from the cache).
ScoredFromCache(r) ==
    /\ r.op \in EngineOps
    /\ r.kind = "score"
    /\ \A i \in 1..Len(r.value.fields.sources) : r.value.fields.sources[i] \in {"hit", "table"}

EnginesScoreOnMissingData ==
    ret.op \in EngineOps =>
        \/ ret.kind = "score"
        \/ ret.value.a = "ProviderError"

(***************************************************************************)
(* The scoring functions.  Scores and weights are whole hundredths where   *)
(* the code has two-decimal floats.                                        *)
(***************************************************************************)
\* What a scoring function was given and what it returned.  The functions keep
\* no state: each is applied to fresh inputs, or once more after itself where
\* two results are compared.
Fresh(op) == ret.op \in {"none", op}

Scored(op, fields) ==
    [op |-> op, key |-> "", kind |-> "ok", value |-> EngineResult(fields), called |-> FALSE, age |-> -1]

\* ---- calculate_comprehensive_risk, the composite (src/agent.py:4470-4495) ----
\* The weights of financial health, volatility, valuation, historical
\* valuation, trend, turnover and RSI, in hundredths.
RiskWeights_heavy == <<25, 17, 18, 12, 10, 12, 7>>

RiskWeights == <<25, 16, 18, 12, 10, 12, 7>>

RECURSIVE WeightedSum(_, _, _)
WeightedSum(ws, xs, i) == IF i > Len(ws) THEN 0 ELSE ws[i] * xs[i] + WeightedSum(ws, xs, i + 1)

\* comprehensive_score of whole sub-scores, in hundredths; round(.., 2) keeps it.
ComprehensiveScore(sub_scores) == WeightedSum(RiskWeights, sub_scores, 1)

RiskLevel_strict(comprehensive_score) ==
    IF comprehensive_score > 7000 THEN "low"
    ELSE IF comprehensive_score > 4000 THEN "medium"
    ELSE IF comprehensive_score > 2000 THEN "high"
    ELSE "critical"

\* risk_level of a comprehensive_score in hundredths
RiskLevel(comprehensive_score) ==
    IF comprehensive_score >= 7000 THEN "low"
    ELSE IF comprehensive_score >= 4000 THEN "medium"
    ELSE IF comprehensive_score >= 2000 THEN "high"
    ELSE "critical"

\* Sub-scores handed to the aggregation, some outside [0, 100].
SubScoreValues == {-10, 0, 100, 120}

AggregateScores(sub_scores) ==
    /\ ret' = Scored("comprehensive_score",
                     [sub_scores |-> sub_scores, weights |-> RiskWeights,
                      comprehensive_score |-> ComprehensiveScore(sub_scores),
                      risk_level |-> RiskLevel(ComprehensiveScore(sub_scores))])
    /\ UNCHANGED <<disk, now, ticks, bt>>

\* Composite scores in hundredths, around every threshold.
CompositeValues == {-500, 0, 1, 1999, 2000, 2001, 3999, 4000, 4001, 6999, 7000, 7001, 10000, 10500}

ClassifyScore(comprehensive_score) ==
    /\ ret' = Scored("risk_level",
                     [comprehensive_score |-> comprehensive_score,
                      risk_level |-> RiskLevel(comprehensive_score)])
    /\ UNCHANGED <<disk, now, ticks, bt>>

\* ---- calculate_industry_percentile (src/agent.py:3447-3529): the ranking of a
\* metric among the collected peer values.  Values are whole tenths. ----
\* list.sort(reverse=True)
RECURSIVE InsertDescending(_, _)
InsertDescending(sorted, v) ==
    IF sorted = <<>> THEN <<v>>
    ELSE IF v > Head(sorted) THEN <<v>> \o sorted
         ELSE <<Head(sorted)>> \o InsertDescending(Tail(sorted), v)

RECURSIVE SortDescending(_)
SortDescending(xs) == IF xs = <<>> THEN <<>> ELSE InsertDescending(SortDescending(Tail(xs)), Head(xs))

RECURSIVE CountAbove_inclusive(_, _)
CountAbove_inclusive(xs, v) ==
    IF xs = <<>> THEN 0 ELSE (IF Head(xs) >= v THEN 1 ELSE 0) + CountAbove_inclusive(Tail(xs), v)

\* sum(1 for val in metric_values if val > metric_value)
RECURSIVE CountAbove(_, _)
CountAbove(xs, v) ==
    IF xs = <<>> THEN 0 ELSE (IF Head(xs) > v THEN 1 ELSE 0) + CountAbove(Tail(xs), v)

\* The tail of calculate_industry_percentile, from the non-empty list collected.
RankAmongPeers(metric_value, metric_values) ==
    LET sorted == SortDescending(metric_values)
    IN [percentile |-> Rat(CountAbove(sorted, metric_value), Len(sorted)),
        industry_avg |-> Rat(SumSeq(sorted, 1, Len(sorted)), Len(sorted))]

PeerValues == {0, 8, 125}
MetricValues == {-1, 0, 8, 9, 125, 200}
MaxPeers == 3

RankMetric(metric_value, metric_values) ==
    /\ ret' = Scored("industry_percentile",
                     [metric_value |-> metric_value, metric_values |-> metric_values,
                      result |-> RankAmongPeers(metric_value, metric_values)])
    /\ UNCHANGED <<disk, now, ticks, bt>>

\* ---- calculate_financial_health_analysis (src/agent.py:3935-3971): the total
\* and its adjustment for the risk flags ----
\* calculate_risk_warning_score (src/agent.py:3779-3797)
calculate_risk_warning_score(is_st, consecutive_loss, negative_cashflow) ==
    LET risk_warning_score == 100 - (IF is_st THEN 50 ELSE 0) - (IF consecutive_loss THEN 30 ELSE 0)
                                  - (IF negative_cashflow THEN 20 ELSE 0)
    IN MaxOf(0, MinOf(100, risk_warning_score))

HealthWeights == <<35, 30, 25, 10>>

\* The adjustment with the cap applied after the deductions.
RiskAdjustedTotal_caplast(total_score, is_st, consecutive_loss, negative_cashflow) ==
    LET lost == IF consecutive_loss THEN MaxOf(0, total_score - 2000) ELSE total_score
        drained == IF negative_cashflow THEN MaxOf(0, lost - 1500) ELSE lost
    IN IF is_st THEN MinOf(4000, drained) ELSE drained

\* The three "if" statements after the weighted total, in hundredths.
RiskAdjustedTotal(total_score, is_st, consecutive_loss, negative_cashflow) ==
    LET capped == IF is_st THEN MinOf(4000, total_score) ELSE total_score
        lost == IF consecutive_loss THEN MaxOf(0, capped - 2000) ELSE capped
    IN IF negative_cashflow THEN MaxOf(0, lost - 1500) ELSE lost

DimensionScores == {0, 60, 100, 120}

\* From the three dimension scores and the three flags to total_score.
ScoreFinancialHealth(dims, is_st, consecutive_loss, negative_cashflow) ==
    LET risk_warning_score == calculate_risk_warning_score(is_st, consecutive_loss, negative_cashflow)
        raw == WeightedSum(HealthWeights, Append(dims, risk_warning_score), 1)
    IN /\ ret' = Scored("financial_health",
                        [dims |-> dims, is_st |-> is_st, consecutive_loss |-> consecutive_loss,
                         negative_cashflow |-> negative_cashflow,
                         risk_warning_score |-> risk_warning_score, raw |-> raw,
                         total_score |-> RiskAdjustedTotal(raw, is_st, consecutive_loss, negative_cashflow)])
       /\ UNCHANGED <<disk, now, ticks, bt>>

\* ---- calculate_rsi (src/agent.py:1577-1623) applied to drawn price lists ----
MinRsiLen == RsiPeriod
MaxRsiLen == 17

\* A price list of n points that rises by 1 from each point to the next, except
\* after the points in at, where it moves by step instead.
RECURSIVE PriceRun(_, _, _)
PriceRun(n, at, step) ==
    IF n = 1 THEN <<60>>
    ELSE LET before == PriceRun(n - 1, at, step)
         IN Append(before, before[n - 1] + (IF (n - 1) \in at THEN step ELSE 1))

PriceSteps == {-3, 0}

ComputeRsi(prices) ==
    /\ ret' = Scored("calculate_rsi", [prices |-> prices, rsi_values |-> calculate_rsi(prices)])
    /\ UNCHANGED <<disk, now, ticks, bt>>

\* ---- calculate_rtr, calculate_asymmetric_risk_deviation and
\* map_deviation_to_score (src/agent.py:1482-1520) applied to drawn inputs, as
\* calculate_turnover_analysis chains them (1552-1558).  actual_turnover is in
\* thousandths of a percent, benchmark_turnover in units of 0.0001 and
\* industry_factor in tenths, as in the turnover engine. ----
ActualTurnovers == {0, 499, 500, 1000, 1001, 1500, 1599, 1600, 1699, 1700, 1899, 1900, 2000, 2199, 2200,
                    2499, 2500, 3000}
BenchmarkTurnovers == {0, 100, 150}
IndustryFactors == {10, 15}

ScoreTurnover(actual_turnover, benchmark_turnover, industry_factor) ==
    LET rtr == calculate_rtr(actual_turnover, 1, benchmark_turnover, industry_factor)
        risk_deviation == calculate_asymmetric_risk_deviation(rtr)
    IN /\ ret' = Scored("turnover_score",
                        [actual_turnover |-> actual_turnover, benchmark_turnover |-> benchmark_turnover,
                         industry_factor |-> industry_factor, rtr |-> rtr,
                         risk_deviation |-> risk_deviation, score |-> map_deviation_to_score(risk_deviation)])
       /\ UNCHANGED <<disk, now, ticks, bt>>

\* ---- calculate_base_score (src/agent.py:2053-2064) and
\* calculate_trend_strength_adjustment (2230-2253) ----
TrendStates == {"strong_up", "clear_up", "mild_up", "sideways", "mild_down", "clear_down", "strong_down"}

\* '"上升" in trend_status' and '"下降" in trend_status'
IsRising(trend_status) == trend_status \in {"strong_up", "clear_up", "mild_up"}
IsFalling(trend_status) == trend_status \in {"strong_down", "clear_down", "mild_down"}

calculate_base_score(trend_status) ==
    CASE trend_status = "strong_up" -> 80
      [] trend_status = "clear_up" -> 70
      [] trend_status = "mild_up" -> 60
      [] trend_status = "sideways" -> 50
      [] trend_status = "mild_down" -> 40
      [] trend_status = "clear_down" -> 30
      [] trend_status = "strong_down" -> 20
      [] OTHER -> 50

\* safe_int(10 * adjustment_factor): 5 for the factor 0.5, 10 for 1.0
AdjustmentStep(trend_status) == IF trend_status = "sideways" THEN 5 ELSE 10

\* The adjustment with both ADX thresholds taken inclusively.
calculate_trend_strength_adjustment_inclusive(trend_status, adx, base_score) ==
    LET step == AdjustmentStep(trend_status)
        moved == IF adx >= 35
                 THEN IF IsRising(trend_status) THEN MinOf(100, base_score + step)
                      ELSE IF IsFalling(trend_status) THEN MaxOf(0, base_score - step)
                      ELSE base_score
                 ELSE IF adx <= 20
                      THEN IF IsRising(trend_status) THEN MaxOf(50, base_score - step)
                           ELSE IF IsFalling(trend_status) THEN MinOf(50, base_score + step)
                           ELSE base_score
                      ELSE base_score
    IN MinOf(100, MaxOf(0, moved))

calculate_trend_strength_adjustment(trend_status, adx, base_score) ==
    LET step == AdjustmentStep(trend_status)
        moved == IF adx > 35
                 THEN IF IsRising(trend_status) THEN MinOf(100, base_score + step)
                      ELSE IF IsFalling(trend_status) THEN MaxOf(0, base_score - step)
                      ELSE base_score
                 ELSE IF adx < 20
                      THEN IF IsRising(trend_status) THEN MaxOf(50, base_score - step)
                           ELSE IF IsFalling(trend_status) THEN MinOf(50, base_score + step)
                           ELSE base_score
                      ELSE base_score
    IN MinOf(100, MaxOf(0, moved))

AdxValues == {0, 19, 20, 25, 35, 36, 60}

\* calculate_trend_analysis, from the trend state and the current ADX to the
\* adjusted score (src/agent.py:2505-2508).
AdjustTrendScore(trend_status, adx) ==
    /\ ret' = Scored("trend_adjustment",
                     [trend_status |-> trend_status, adx |-> adx,
                      base_score |-> calculate_base_score(trend_status),
                      adjusted_score |-> calculate_trend_strength_adjustment(
                                             trend_status, adx, calculate_base_score(trend_status))])
    /\ UNCHANGED <<disk, now, ticks, bt>>

\* ---- calculate_volatility_weights (src/agent.py:1269-1285); the percentile
\* and the weights are whole hundredths ----
calculate_volatility_weights(market_volatility_percentile) ==
    LET rel_weight ==
            IF market_volatility_percentile <= 15
            THEN MinOf(65, 50 + ((15 - market_volatility_percentile) * 15) \div 15)
            ELSE IF market_volatility_percentile >= 85
                 THEN MaxOf(35, 50 - ((market_volatility_percentile - 85) * 15) \div 15)
                 ELSE 50
    IN [abs_weight |-> 100 - rel_weight, rel_weight |-> rel_weight]

MarketPercentiles == 0..100

WeighVolatility(market_volatility_percentile) ==
    /\ ret' = Scored("volatility_weights",
                     [market_volatility_percentile |-> market_volatility_percentile,
                      weights |-> calculate_volatility_weights(market_volatility_percentile)])
    /\ UNCHANGED <<disk, now, ticks, bt>>

\* ---- filter_outliers (src/agent.py:3254-3305).  Values are whole tenths;
\* quartiles are kept multiplied by 4. ----
\* series[keep] of pandas: the values that pass, in their order.
RECURSIVE KeepAbove(_, _)
KeepAbove(xs, floor) ==
    IF xs = <<>> THEN <<>>
    ELSE (IF Head(xs) > floor THEN <<Head(xs)>> ELSE <<>>) \o KeepAbove(Tail(xs), floor)

\* 4 * Series.quantile(quarters / 4), linear interpolation between the order
\* statistics on either side of position (n - 1) * quarters / 4.
Quantile4(xs, quarters) ==
    LET n == Len(xs)
        desc == SortDescending(xs)
        asc == [i \in 1..n |-> desc[n + 1 - i]]
        h == (n - 1) * quarters
        lo == h \div 4 + 1
        hi == IF lo < n THEN lo + 1 ELSE lo
    IN 4 * asc[lo] + (asc[hi] - asc[lo]) * (h % 4)

\* filtered[(filtered >= lower_bound) & (filtered <= upper_bound)]
RECURSIVE KeepWithin(_, _, _)
KeepWithin(xs, lower8, upper4) ==
    IF xs = <<>> THEN <<>>
    ELSE (IF 8 * Head(xs) >= lower8 /\ 4 * Head(xs) <= upper4 THEN <<Head(xs)>> ELSE <<>>)
         \o KeepWithin(Tail(xs), lower8, upper4)

\* filtered[filtered < cap]
RECURSIVE KeepBelow(_, _)
KeepBelow(xs, cap) ==
    IF xs = <<>> THEN <<>>
    ELSE (IF Head(xs) < cap THEN <<Head(xs)>> ELSE <<>>) \o KeepBelow(Tail(xs), cap)

\* series.head(20)
Head20(xs) == IF Len(xs) <= 20 THEN xs ELSE SubSeq(xs, 1, 20)

\* "if len(filtered) > 10"
UsesIqr(n) == n > 10

\* filter_outliers(data, indicator_type): [method, retained, values]; method
\* names the branch taken, retained is len(filtered) when it was chosen.
filter_outliers(data, indicator_type) ==
    LET positive == KeepAbove(data, 1)
        filtered == IF positive = <<>> THEN KeepAbove(data, -1) ELSE positive
        q1 == Quantile4(filtered, 1)
        q3 == Quantile4(filtered, 3)
        iqr == q3 - q1
        lower8 == MaxOf(8, 2 * q1 - 3 * iqr)
        upper4 == IF indicator_type = "peTTM" THEN q3 + 5 * iqr ELSE q3 + 3 * iqr
        kept == IF UsesIqr(Len(filtered))
                THEN KeepWithin(filtered, lower8, upper4)
                ELSE KeepBelow(filtered, IF indicator_type = "peTTM" THEN 10000 ELSE 800)
    IN IF data = <<>> \/ filtered = <<>>
       THEN [method |-> "none", retained |-> 0, values |-> <<>>]
       ELSE [method |-> IF UsesIqr(Len(filtered)) THEN "iqr" ELSE "caps",
             retained |-> Len(filtered),
             values |-> IF kept # <<>> THEN kept
                        ELSE IF positive # <<>> THEN Head20(positive) ELSE Head20(KeepAbove(data, -1))]

MaxHistory == 11
OddValues == {-10, 0, 900, 5000, 20000}
IndicatorTypes == {"peTTM", "pb", "psttm"}

\* A history of n points, each 10.0 except the points in at, which are odd.
HistoryRun(n, at, odd) == [i \in 1..n |-> IF i \in at THEN odd ELSE 100]

FilterHistory(data, indicator_type) ==
    /\ ret' = Scored("filter_outliers",
                     [data |-> data, indicator_type |-> indicator_type,
                      filtered |-> filter_outliers(data, indicator_type)])
    /\ UNCHANGED <<disk, now, ticks, bt>>

\* ---- calculate_percentile, calculate_historical_valuation_score and the
\* blend of calculate_historical_valuation_analysis (src/agent.py:3307-3408) ----
\* A value that may be None.
Nothing == [some |-> FALSE, v |-> 0]
Some(v) == [some |-> TRUE, v |-> v]

RECURSIVE CountBelow(_, _)
CountBelow(xs, v) ==
    IF xs = <<>> THEN 0 ELSE (IF Head(xs) < v THEN 1 ELSE 0) + CountBelow(Tail(xs), v)

\* calculate_percentile(current_value, historical_values): None, or the
\* fraction count_below / len * 100
calculate_percentile(current_value, historical_values) ==
    IF historical_values = <<>> \/ ~current_value.some
    THEN Nothing
    ELSE Some(Rat(100 * CountBelow(historical_values, current_value.v), Len(historical_values)))

\* The bands with the low edge of each taken into the band below.
calculate_historical_valuation_score_inclusive(percentile) ==
    IF ~percentile.some THEN Nothing
    ELSE LET p == percentile.v
         IN Some(IF p.num <= 10 * p.den THEN 95
                 ELSE IF p.num <= 25 * p.den THEN 85
                 ELSE IF p.num <= 50 * p.den THEN 70
                 ELSE IF p.num <= 75 * p.den THEN 50
                 ELSE IF p.num <= 90 * p.den THEN 30
                 ELSE 15)

calculate_historical_valuation_score(percentile) ==
    IF ~percentile.some THEN Nothing
    ELSE LET p == percentile.v
         IN Some(IF p.num < 10 * p.den THEN 95
                 ELSE IF p.num < 25 * p.den THEN 85
                 ELSE IF p.num < 50 * p.den THEN 70
                 ELSE IF p.num < 75 * p.den THEN 50
                 ELSE IF p.num < 90 * p.den THEN 30
                 ELSE 15)

\* weights, in tenths, and the indicator_type handed to filter_outliers
HistoryWeights == <<4, 3, 3>>
HistoryIndicators == <<"peTTM", "pb", "psttm">>

\* From the current valuations and the histories of PE, PB and PS to the
\* percentiles, the scores and final_score (a fraction).
HistoricalValuation(currents, histories) ==
    LET filtered == [i \in 1..3 |-> filter_outliers(histories[i], HistoryIndicators[i]).values]
        percentiles == [i \in 1..3 |-> calculate_percentile(currents[i], filtered[i])]
        scores == [i \in 1..3 |-> calculate_historical_valuation_score(percentiles[i])]
        weighted == [i \in 1..3 |-> IF scores[i].some THEN scores[i].v * HistoryWeights[i] ELSE 0]
        weights_sum == SumSeq([i \in 1..3 |-> IF scores[i].some THEN HistoryWeights[i] ELSE 0], 1, 3)
    IN [filtered |-> filtered, percentiles |-> percentiles, scores |-> scores,
        final_score |-> IF weights_sum > 0 THEN Rat(SumSeq(weighted, 1, 3), weights_sum) ELSE Rat(50, 1)]

CurrentValuations == {Nothing, Some(50), Some(150), Some(250), Some(350), Some(550), Some(750), Some(850),
                      Some(950), Some(1050)}
\* Ten history points 10.0, 20.0, ..., 100.0, or none.
ValuationHistories == {<<>>, [i \in 1..10 |-> 100 * i]}

ScoreHistoricalValuation(currents, histories) ==
    /\ ret' = Scored("historical_valuation",
                     [currents |-> currents, histories |-> histories,
                      result |-> HistoricalValuation(currents, histories)])
    /\ UNCHANGED <<disk, now, ticks, bt>>

\* ---- The valuation engine: the fields of get_stock_valuation_data
\* (src/agent.py:2696-2702), calculate_market_environment_adjustment
\* (2968-2990), calculate_valuation_score (3006-3034) and the adjusted range
\* of calculate_valuation_analysis (3094-3108) ----
\* "float(latest_data[i]) if latest_data[i] else 0.0"
ValuationField(raw) == IF raw.some THEN raw.v ELSE 0

\* One of the three macro indicators against its two thresholds, in hundredths:
\* the factor for a reading above the upper, below the lower, or between them.
MacroStep(reading, above, below) ==
    IF reading = "above" THEN above ELSE IF reading = "below" THEN below ELSE 100

\* adjustment_factor in millionths: treasury yield (> 3.0: 0.95, < 2.5: 1.05),
\* M2 growth (> 10: 1.03, < 8: 0.97), index PE (> 20: 0.95, < 12: 1.05),
\* clamped to [0.85, 1.15].
calculate_market_environment_adjustment(treasury_yield, m2_growth, hs300_pe) ==
    MaxOf(850000, MinOf(1150000, MacroStep(treasury_yield, 95, 105) * MacroStep(m2_growth, 103, 97)
                                 * MacroStep(hs300_pe, 95, 105)))

\* The widening of the upper bound for an industry leader, in quarters:
\* PE and PS 1.25, PB 1.5.
LeaderWidening(metric, is_leader) ==
    IF ~is_leader THEN 4 ELSE IF metric = "pb" THEN 6 ELSE 5

\* One unit of a valuation in the scale of the adjusted upper bound.
RangeScale == 4000000

\* calculate_valuation_score(value, low, high), all three in one scale
calculate_valuation_score(value, low, high) ==
    IF low = 0 /\ high = 0 THEN 50
    ELSE IF value >= low /\ value <= high THEN 100
    ELSE IF value < low
         THEN IF 5 * (low - value) < low THEN 90
              ELSE IF 2 * (low - value) < low THEN 80
              ELSE IF low - value < low THEN 60
              ELSE 40
         ELSE IF 5 * (value - high) < high THEN 80
              ELSE IF 2 * (value - high) < high THEN 60
              ELSE IF value - high < high THEN 40
              ELSE 20

RawValuations == {Nothing, Some(1), Some(5), Some(9), Some(10), Some(12), Some(30), Some(60)}
\* The industry range [low, high]: collapsed, a single point, narrow, wide.
IndustryRanges == {<<0, 0>>, <<10, 10>>, <<9, 10>>, <<10, 30>>}
MacroReadings == {"above", "between", "below"}
ValuationMetrics == {"petttm", "pb", "psttm"}

\* The path of one metric through calculate_valuation_analysis.
ScoreValuationMetric(metric, raw, range, is_leader, treasury_yield, m2_growth, hs300_pe) ==
    LET adjustment_factor == calculate_market_environment_adjustment(treasury_yield, m2_growth, hs300_pe)
        adjusted_high == range[2] * adjustment_factor * LeaderWidening(metric, is_leader)
    IN /\ ret' = Scored("valuation_score",
                        [metric |-> metric, raw |-> raw, low |-> range[1], high |-> range[2],
                         is_leader |-> is_leader, adjustment_factor |-> adjustment_factor,
                         value |-> ValuationField(raw), adjusted_high |-> adjusted_high,
                         score |-> calculate_valuation_score(ValuationField(raw) * RangeScale,
                                                             range[1] * RangeScale, adjusted_high)])
       /\ UNCHANGED <<disk, now, ticks, bt>>

\* ---- determine_trend_direction (src/agent.py:1993-2051); mas holds the five
\* moving-average lists in the order 10, 20, 50, 60, 200 ----
\* xs[-1]
Latest(xs) == xs[Len(xs)]

\* The chain of tests with the mild conditions tried before the strong ones.
determine_trend_direction_mildfirst(mas) ==
    LET m10 == Latest(mas[1])
        m20 == Latest(mas[2])
        m50 == Latest(mas[3])
        m60 == Latest(mas[4])
        m200 == Latest(mas[5])
    IN IF \E i \in 1..5 : mas[i] = <<>> THEN "sideways"
       ELSE IF m10 = 0 \/ m20 = 0 \/ m50 = 0 \/ m60 = 0 \/ m200 = 0 THEN "sideways"
       ELSE IF m10 > m20 /\ m20 > m60 /\ m60 > m200 THEN "mild_up"
       ELSE IF m10 > m20 /\ m20 > m50 /\ m50 > m60 /\ m60 > m200 THEN "clear_up"
       ELSE IF 100 * m10 > 101 * m20 /\ 100 * m20 > 101 * m50 /\ 100 * m50 > 101 * m60
               /\ 100 * m60 > 101 * m200 THEN "strong_up"
       ELSE IF m10 < m20 /\ m20 < m60 /\ m60 < m200 THEN "mild_down"
       ELSE IF m10 < m20 /\ m20 < m50 /\ m50 < m60 /\ m60 < m200 THEN "clear_down"
       ELSE IF 100 * m10 < 99 * m20 /\ 100 * m20 < 99 * m50 /\ 100 * m50 < 99 * m60
               /\ 100 * m60 < 99 * m200 THEN "strong_down"
       ELSE "sideways"

determine_trend_direction(mas) ==
    LET m10 == Latest(mas[1])
        m20 == Latest(mas[2])
        m50 == Latest(mas[3])
        m60 == Latest(mas[4])
        m200 == Latest(mas[5])
    IN IF \E i \in 1..5 : mas[i] = <<>> THEN "sideways"
       ELSE IF m10 = 0 \/ m20 = 0 \/ m50 = 0 \/ m60 = 0 \/ m200 = 0 THEN "sideways"
       ELSE IF 100 * m10 > 101 * m20 /\ 100 * m20 > 101 * m50 /\ 100 * m50 > 101 * m60
               /\ 100 * m60 > 101 * m200 THEN "strong_up"
       ELSE IF m10 > m20 /\ m20 > m50 /\ m50 > m60 /\ m60 > m200 THEN "clear_up"
       ELSE IF m10 > m20 /\ m20 > m60 /\ m60 > m200 THEN "mild_up"
       ELSE IF 100 * m10 < 99 * m20 /\ 100 * m20 < 99 * m50 /\ 100 * m50 < 99 * m60
               /\ 100 * m60 < 99 * m200 THEN "strong_down"
       ELSE IF m10 < m20 /\ m20 < m50 /\ m50 < m60 /\ m60 < m200 THEN "clear_down"
       ELSE IF m10 < m20 /\ m20 < m60 /\ m60 < m200 THEN "mild_down"
       ELSE "sideways"

\* A moving-average list: empty, or the sentinel 0 followed by its latest value.
AverageLevels == {0, 1000, 1005, 1020, 1040, 1060, 1080}
AverageLists == {<<>>} \cup {<<0, v>> : v \in AverageLevels}

ClassifyTrend(mas) ==
    /\ ret' = Scored("trend_direction",
                     [mas |-> mas, trend_status |-> determine_trend_direction(mas),
                      base_score |-> calculate_base_score(determine_trend_direction(mas))])
    /\ UNCHANGED <<disk, now, ticks, bt>>

\* ---- the three places that turn a comprehensive score into a tier
\* (src/agent.py:4315-4321, 4483-4495, 4068-4077).  Scores in hundredths. ----
\* risk_level of a backtest record
BacktestRiskLevel(comprehensive_score) ==
    IF comprehensive_score >= 7000 THEN "low"
    ELSE IF comprehensive_score >= 4000 THEN "medium"
    ELSE "high"

\* _get_risk_interval(score)
RiskInterval(score) ==
    IF score >= 7000 THEN ">= 70"
    ELSE IF score >= 4000 THEN "40 - 69"
    ELSE IF score >= 2000 THEN "20 - 39"
    ELSE "< 20"

\* The tier an interval label stands for.
TierOfInterval(label) ==
    CASE label = ">= 70" -> "low"
      [] label = "40 - 69" -> "medium"
      [] label = "20 - 39" -> "high"
      [] label = "< 20" -> "critical"

\* Scores of the range [0, 100] around every threshold.
TierScores == {c \in CompositeValues : c >= 0 /\ c <= 10000}

\* One score labelled by the report, by a backtest record and by the interval.
LabelScore(comprehensive_score) ==
    /\ ret' = Scored("tier_labels",
                     [comprehensive_score |-> comprehensive_score,
                      risk_level |-> RiskLevel(comprehensive_score),
                      backtest_risk_level |-> BacktestRiskLevel(comprehensive_score),
                      risk_interval |-> RiskInterval(comprehensive_score)])
    /\ UNCHANGED <<disk, now, ticks, bt>>

(***************************************************************************)
(* The scoring functions applied to drawn inputs                           *)
(***************************************************************************)
InitScoring ==
    /\ RetryIdle
    /\ disk = [k \in StoreKeys |-> Absent]
    /\ now = 0
    /\ ticks = 0
    /\ ret = NoRet
    /\ bt = BacktestIdle

NextScoring ==
    \/ /\ Fresh("none")
       /\ \E sub_scores \in [1..7 -> SubScoreValues] : AggregateScores(sub_scores) /\ UNCHANGED retryVars
    \/ /\ Fresh("risk_level")
       /\ \E c \in CompositeValues : ClassifyScore(c) /\ UNCHANGED retryVars
    \/ /\ Fresh("industry_percentile")
       /\ \E n \in 1..MaxPeers : \E metric_values \in [1..n -> PeerValues] : \E metric_value \in MetricValues :
              RankMetric(metric_value, metric_values) /\ UNCHANGED retryVars
    \/ /\ Fresh("none")
       /\ \E dims \in [1..3 -> DimensionScores], is_st, consecutive_loss, negative_cashflow \in BOOLEAN :
              ScoreFinancialHealth(dims, is_st, consecutive_loss, negative_cashflow) /\ UNCHANGED retryVars
    \/ /\ Fresh("none")
       /\ \E n \in MinRsiLen..MaxRsiLen, step \in PriceSteps :
             \E at \in {s \in SUBSET (1..(n - 1)) : Cardinality(s) <= 2} \cup {1..(n - 1)} :
                ComputeRsi(PriceRun(n, at, step)) /\ UNCHANGED retryVars
    \/ /\ Fresh("none")
       /\ \E a \in ActualTurnovers, b \in BenchmarkTurnovers, f \in IndustryFactors :
              ScoreTurnover(a, b, f) /\ UNCHANGED retryVars
    \/ /\ Fresh("none")
       /\ \E trend_status \in TrendStates, adx \in AdxValues :
              AdjustTrendScore(trend_status, adx) /\ UNCHANGED retryVars
    \/ /\ Fresh("volatility_weights")
       /\ \E p \in MarketPercentiles : WeighVolatility(p) /\ UNCHANGED retryVars
    \/ /\ Fresh("none")
       /\ \E n \in 0..MaxHistory, odd \in OddValues, indicator_type \in IndicatorTypes :
             \E at \in {s \in SUBSET (1..n) : Cardinality(s) <= 2} :
                FilterHistory(HistoryRun(n, at, odd), indicator_type) /\ UNCHANGED retryVars
    \/ /\ Fresh("none")
       /\ \E currents \in [1..3 -> CurrentValuations], histories \in [1..3 -> ValuationHistories] :
              ScoreHistoricalValuation(currents, histories) /\ UNCHANGED retryVars
    \/ /\ Fresh("none")
       /\ \E metric \in ValuationMetrics, raw \in RawValuations, range \in IndustryRanges, is_leader \in BOOLEAN,
             treasury_yield \in MacroReadings, m2_growth \in MacroReadings, hs300_pe \in MacroReadings :
              ScoreValuationMetric(metric, raw, range, is_leader, treasury_yield, m2_growth, hs300_pe)
              /\ UNCHANGED retryVars
    \/ /\ Fresh("none")
       /\ \E mas \in [1..5 -> AverageLists] : ClassifyTrend(mas) /\ UNCHANGED retryVars
    \/ /\ Fresh("none")
       /\ \E c \in TierScores : LabelScore(c) /\ UNCHANGED retryVars

SpecScoring == InitScoring /\ [][NextScoring]_vars

\* C11: the composite is the weighted sum of the seven sub-scores, the weights
\* are 0.25/0.16/0.18/0.12/0.10/0.12/0.07 and sum to exactly 1.00, and when
\* every sub-score is within [0, 100] so is the composite.
CompositeIsBoundedWeightedSum ==
    ret.op = "comprehensive_score" =>
        LET f == ret.value.fields
        IN /\ f.weights = <<25, 16, 18, 12, 10, 12, 7>>
           /\ WeightedSum(f.weights, [i \in 1..7 |-> 1], 1) = 100
           /\ f.comprehensive_score =
                  25 * f.sub_scores[1] + 16 * f.sub_scores[2] + 18 * f.sub_scores[3]
                  + 12 * f.sub_scores[4] + 10 * f.sub_scores[5] + 12 * f.sub_scores[6]
                  + 7 * f.sub_scores[7]
           /\ (\A i \in 1..7 : f.sub_scores[i] >= 0 /\ f.sub_scores[i] <= 100) =>
                  (f.comprehensive_score >= 0 /\ f.comprehensive_score <= 10000)

\* Witness of C11: seven sub-scores of 100 aggregated to exactly 100.00.
CompositeOfFullMarks ==
    /\ ret.op = "comprehensive_score"
    /\ \A i \in 1..7 : ret.value.fields.sub_scores[i] = 100
    /\ ret.value.fields.comprehensive_score = 10000

TierRank(level) ==
    CASE level = "critical" -> 0 [] level = "high" -> 1 [] level = "medium" -> 2 [] level = "low" -> 3

\* C12: the tier depends on the composite score alone, with score >= 70 low,
\* 40 <= score < 70 medium, 20 <= score < 40 high, score < 20 critical, and of
\* two classified scores the higher never gets the worse tier.
RiskTierThresholdsMonotone ==
    [][(ret'.op = "risk_level") =>
          LET f == ret'.value.fields
          IN /\ f.risk_level = "low" <=> f.comprehensive_score >= 7000
             /\ f.risk_level = "medium" <=> (f.comprehensive_score >= 4000 /\ f.comprehensive_score < 7000)
             /\ f.risk_level = "high" <=> (f.comprehensive_score >= 2000 /\ f.comprehensive_score < 4000)
             /\ f.risk_level = "critical" <=> f.comprehensive_score < 2000
             /\ (ret.op = "risk_level"
                   /\ ret.value.fields.comprehensive_score <= f.comprehensive_score) =>
                    TierRank(ret.value.fields.risk_level) <= TierRank(f.risk_level)
             /\ (ret.op = "risk_level"
                   /\ ret.value.fields.comprehensive_score = f.comprehensive_score) =>
                    ret.value.fields.risk_level = f.risk_level]_vars

\* Witness of C12: a composite of exactly 70.00 classified low.
ThresholdScoreClassifiedLow ==
    /\ ret.op = "risk_level"
    /\ ret.value.fields.comprehensive_score = 7000
    /\ ret.value.fields.risk_level = "low"

\* xs and ys hold the same values, each as often.
IsPermutation(xs, ys) ==
    /\ Len(xs) = Len(ys)
    /\ \A v \in {xs[i] : i \in 1..Len(xs)} \cup {ys[i] : i \in 1..Len(ys)} :
          Cardinality({i \in 1..Len(xs) : xs[i] = v}) = Cardinality({i \in 1..Len(ys) : ys[i] = v})

\* C13: for a non-empty list of collected peer values the percentile is the
\* number of peer values strictly greater than the metric divided by the number
\* of peer values; it lies in [0, 1]; with the peer values fixed a larger metric
\* never gets a larger percentile; and percentile and average are the same for
\* any reordering of the peer values.
PercentileIsShareOfBetterPeers ==
    [][ret'.op = "industry_percentile" =>
          LET g == ret'.value.fields
              f == ret.value.fields
              better == {i \in 1..Len(g.metric_values) : g.metric_values[i] > g.metric_value}
          IN /\ g.result.percentile = Rat(Cardinality(better), Len(g.metric_values))
             /\ 0 <= g.result.percentile.num
             /\ g.result.percentile.num <= g.result.percentile.den
             /\ (ret.op = "industry_percentile" /\ f.metric_values = g.metric_values
                    /\ f.metric_value <= g.metric_value)
                   => ~RatLess(f.result.percentile, g.result.percentile)
             /\ (ret.op = "industry_percentile" /\ f.metric_value = g.metric_value
                    /\ IsPermutation(f.metric_values, g.metric_values))
                   => f.result = g.result]_vars

\* Witness of C13: a metric that ties one peer and is beaten by another is
\* ranked at one third, the tie not counted.
MetricTiedWithPeerRanked ==
    /\ ret.op = "industry_percentile"
    /\ ret.value.fields.metric_value = 8
    /\ ret.value.fields.metric_values = <<8, 125, 0>>
    /\ ret.value.fields.result.percentile = Rat(1, 3)

\* C15: for dimension scores in [0, 100] and any risk flags the final total of
\* the financial-health engine is in [0, 100]; an ST instrument ends at 40 or
\* less; a consecutive loss takes a further 20 and a negative cash flow a
\* further 15, each floored at 0 and applied after the ST cap.
HealthTotalCappedThenReduced ==
    ret.op = "financial_health" =>
        LET f == ret.value.fields
            capped == IF f.is_st /\ f.raw > 4000 THEN 4000 ELSE f.raw
            lost == IF ~f.consecutive_loss THEN capped
                    ELSE IF capped - 2000 < 0 THEN 0 ELSE capped - 2000
            drained == IF ~f.negative_cashflow THEN lost
                       ELSE IF lost - 1500 < 0 THEN 0 ELSE lost - 1500
        IN /\ f.raw = 35 * f.dims[1] + 30 * f.dims[2] + 25 * f.dims[3] + 10 * f.risk_warning_score
           /\ f.total_score = drained
           /\ (\A i \in 1..3 : f.dims[i] \in 0..100) => f.total_score \in 0..10000
           /\ f.is_st => f.total_score <= 4000

\* Witness of C15: an ST instrument with a raw total of 85 and no other flag.
StInstrumentWithRawTotal85 ==
    /\ ret.op = "financial_health"
    /\ ret.value.fields.is_st
    /\ ~ret.value.fields.consecutive_loss
    /\ ~ret.value.fields.negative_cashflow
    /\ ret.value.fields.raw = 8500
    /\ ret.value.fields.total_score = 4000

\* No price of the list is lower than the one before it, over the changes
\* numbered first..last (change d leads from prices[d] to prices[d + 1]).
NoDecrease(prices, first, last) == \A d \in first..last : d >= 1 => prices[d + 1] >= prices[d]

RsiComputed == ret.op = "calculate_rsi" /\ Len(ret.value.fields.prices) >= RsiPeriod + 1

\* C16 as stated: for a price list of at least period + 1 points every
\* non-sentinel RSI value lies in [0, 100], and the value at a position is 100
\* whenever no price decrease occurs in the trailing window of period changes
\* that ends with the last change the value is computed from.
RsiIs100WithoutLossInWindow ==
    RsiComputed =>
        LET f == ret.value.fields
        IN \A j \in RsiPeriod..Len(f.rsi_values) :
              /\ f.rsi_values[j].den > 0
              /\ 0 <= f.rsi_values[j].num
              /\ f.rsi_values[j].num <= 100 * f.rsi_values[j].den
              /\ NoDecrease(f.prices, j - RsiPeriod + 1, j) => f.rsi_values[j].num = 100 * f.rsi_values[j].den

\* C16 amended: every non-sentinel RSI value lies in [0, 100]; the value at a
\* position is 100 exactly when no price decrease occurs in any change from
\* the start of the list up to the last change the value is computed from.
\* For the first value these are the period changes of its window; a later
\* value stays below 100 after an earlier decrease, because the averages are
\* smoothed and not recomputed over the window.
RsiIs100WithoutLossSinceStart ==
    RsiComputed =>
        LET f == ret.value.fields
        IN /\ Len(f.rsi_values) = Len(f.prices) - 1
           /\ \A j \in 1..(RsiPeriod - 1) : f.rsi_values[j] = Rat(0, 1)
           /\ \A j \in RsiPeriod..Len(f.rsi_values) :
                 /\ f.rsi_values[j].den > 0
                 /\ 0 <= f.rsi_values[j].num
                 /\ f.rsi_values[j].num <= 100 * f.rsi_values[j].den
                 /\ NoDecrease(f.prices, 1, j) <=> f.rsi_values[j].num = 100 * f.rsi_values[j].den

\* Witness of C16: the first change is a fall, the fourteen changes after it
\* are rises, and the second RSI value is below 100.
RsiBelow100AfterEarlierFall ==
    /\ RsiComputed
    /\ Len(ret.value.fields.rsi_values) >= RsiPeriod + 1
    /\ ~NoDecrease(ret.value.fields.prices, 1, 1)
    /\ NoDecrease(ret.value.fields.prices, 2, RsiPeriod + 1)
    /\ ret.value.fields.rsi_values[RsiPeriod + 1].num < 100 * ret.value.fields.rsi_values[RsiPeriod + 1].den

\* C17: RTR is the actual turnover over benchmark times industry factor, both
\* turnovers in one unit; the deviation is (RTR - 1) * 100 * 1.5 when RTR > 1
\* and (1 - RTR) * 100 * 0.3 otherwise; the score is 100, 85, 70, 55, 40, 25
\* for a deviation below 10, 20, 40, 70, 100 and from 100 on.  (A zero
\* denominator, for which the quotient is undefined, is left aside.)
TurnoverScoreFollowsRtrBands ==
    (ret.op = "turnover_score"
        /\ ret.value.fields.benchmark_turnover * ret.value.fields.industry_factor # 0) =>
        LET f == ret.value.fields
            a == f.actual_turnover
            d == f.benchmark_turnover * f.industry_factor
            \* the deviation is dev / d
            dev == IF a > d THEN (a - d) * 150 ELSE (d - a) * 30
        IN /\ f.rtr.den > 0
           /\ f.rtr.num * d = a * f.rtr.den
           /\ f.risk_deviation.den > 0
           /\ f.risk_deviation.num * d = dev * f.risk_deviation.den
           /\ f.score = (IF dev < 10 * d THEN 100
                         ELSE IF dev < 20 * d THEN 85
                         ELSE IF dev < 40 * d THEN 70
                         ELSE IF dev < 70 * d THEN 55
                         ELSE IF dev < 100 * d THEN 40
                         ELSE 25)

\* Witness of C17: actual 2.0%, benchmark 1.0%, factor 1.0 give RTR 2.0,
\* deviation 150 and score 25.
TurnoverTwiceTheBenchmark ==
    /\ ret.op = "turnover_score"
    /\ ret.value.fields.actual_turnover = 2000
    /\ ret.value.fields.benchmark_turnover = 100
    /\ ret.value.fields.industry_factor = 10
    /\ ret.value.fields.rtr.num = 2 * ret.value.fields.rtr.den
    /\ ret.value.fields.risk_deviation.num = 150 * ret.value.fields.risk_deviation.den
    /\ ret.value.fields.score = 25

\* C18: for each of the three rising and the three falling trend states an
\* ADX above 35 moves the base score 10 points in the direction of the trend,
\* an ADX below 20 moves it 10 points toward 50 without crossing 50, an ADX
\* from 20 to 35 leaves it as it is, and the adjusted score is in [0, 100].
AdxAdjustsDirectionalStates ==
    (ret.op = "trend_adjustment" /\ ret.value.fields.trend_status # "sideways") =>
        LET f == ret.value.fields
            up == f.trend_status \in {"strong_up", "clear_up", "mild_up"}
        IN /\ f.base_score = (CASE f.trend_status = "strong_up" -> 80 [] f.trend_status = "clear_up" -> 70
                                [] f.trend_status = "mild_up" -> 60 [] f.trend_status = "mild_down" -> 40
                                [] f.trend_status = "clear_down" -> 30 [] f.trend_status = "strong_down" -> 20)
           /\ f.adx > 35 => f.adjusted_score = (IF up THEN f.base_score + 10 ELSE f.base_score - 10)
           /\ f.adx < 20 => /\ f.adjusted_score = (IF up THEN f.base_score - 10 ELSE f.base_score + 10)
                            /\ IF up THEN f.adjusted_score >= 50 ELSE f.adjusted_score <= 50
           /\ (20 <= f.adx /\ f.adx <= 35) => f.adjusted_score = f.base_score
           /\ f.adjusted_score \in 0..100

\* Witness of C18: a mildly rising trend with a weak ADX is brought to 50.
MildRiseDampedTo50 ==
    /\ ret.op = "trend_adjustment"
    /\ ret.value.fields.trend_status = "mild_up"
    /\ ret.value.fields.adx = 19
    /\ ret.value.fields.adjusted_score = 50

\* C19: in the sideways state the ADX adjustment is applied at half magnitude:
\* with an ADX above 35 or below 20 the adjusted score is 5 points away from
\* the base score 50.
SidewaysAdjustedByHalf ==
    (ret.op = "trend_adjustment" /\ ret.value.fields.trend_status = "sideways"
        /\ (ret.value.fields.adx > 35 \/ ret.value.fields.adx < 20)) =>
        /\ ret.value.fields.base_score = 50
        /\ ret.value.fields.adjusted_score \in {45, 55}

\* C20: for every market-volatility percentile p in [0, 1] the absolute and the
\* relative weight sum to 1 and each lies in [0.35, 0.65]; for 0.15 < p < 0.85
\* both are 0.50; in both extreme regimes (p <= 0.15 and p >= 0.85) the
\* relative weight is at least 0.50 and grows as p moves further into the
\* extreme.
RelativeWeightGrowsInBothExtremes ==
    [][ret'.op = "volatility_weights" =>
          LET g == ret'.value.fields
              f == ret.value.fields
              p == g.market_volatility_percentile
          IN /\ g.weights.abs_weight + g.weights.rel_weight = 100
             /\ g.weights.abs_weight \in 35..65
             /\ g.weights.rel_weight \in 35..65
             /\ (15 < p /\ p < 85) => (g.weights.abs_weight = 50 /\ g.weights.rel_weight = 50)
             /\ (p <= 15 \/ p >= 85) => g.weights.rel_weight >= 50
             /\ (ret.op = "volatility_weights" /\ p <= f.market_volatility_percentile
                    /\ f.market_volatility_percentile <= 15)
                   => g.weights.rel_weight >= f.weights.rel_weight
             /\ (ret.op = "volatility_weights" /\ p >= f.market_volatility_percentile
                    /\ f.market_volatility_percentile >= 85)
                   => g.weights.rel_weight >= f.weights.rel_weight]_vars

\* C21: filter_outliers chooses its method by the number n of retained positive
\* history points: the adaptive IQR filter whenever n >= 10, n = 10 included,
\* and the fixed caps (PE < 1000, PB and PS < 80) only when n < 10.
IqrFilterFromTenPoints ==
    (ret.op = "filter_outliers" /\ ret.value.fields.filtered.method # "none") =>
        LET f == ret.value.fields.filtered
        IN /\ f.retained >= 10 => f.method = "iqr"
           /\ f.retained < 10 => f.method = "caps"

\* C22: each metric's percentile is the share of its history strictly below
\* the current value, times 100, and maps to 95, 85, 70, 50, 30, 15 for a
\* percentile below 10, 25, 50, 75, 90 and from 90 on; the final score is the
\* 40/30/30 weighted mean over exactly the metrics that have a percentile and
\* 50 when none has; it lies in [15, 95] and never rises when one current
\* valuation is raised with the histories fixed.
HistoricalScoreBandsAndBlend ==
    ret.op = "historical_valuation" =>
        LET f == ret.value.fields
            r == f.result
            have == {i \in 1..3 : f.currents[i].some /\ r.filtered[i] # <<>>}
            below(i) == Cardinality({j \in 1..Len(r.filtered[i]) : r.filtered[i][j] < f.currents[i].v})
            band(i) == LET c == 100 * below(i)
                           n == Len(r.filtered[i])
                       IN IF c < 10 * n THEN 95 ELSE IF c < 25 * n THEN 85 ELSE IF c < 50 * n THEN 70
                          ELSE IF c < 75 * n THEN 50 ELSE IF c < 90 * n THEN 30 ELSE 15
            w == <<4, 3, 3>>
            total(S) == IF S = {} THEN 0
                        ELSE (IF 1 \in S THEN band(1) * w[1] ELSE 0) + (IF 2 \in S THEN band(2) * w[2] ELSE 0)
                             + (IF 3 \in S THEN band(3) * w[3] ELSE 0)
            wsum(S) == (IF 1 \in S THEN w[1] ELSE 0) + (IF 2 \in S THEN w[2] ELSE 0) + (IF 3 \in S THEN w[3] ELSE 0)
        IN /\ \A i \in 1..3 :
                 /\ r.percentiles[i].some <=> i \in have
                 /\ r.scores[i].some <=> i \in have
                 /\ i \in have => /\ r.percentiles[i].v = Rat(100 * below(i), Len(r.filtered[i]))
                                  /\ r.scores[i].v = band(i)
           /\ have = {} => r.final_score = Rat(50, 1)
           /\ have # {} => r.final_score = Rat(total(have), wsum(have))
           /\ r.final_score.den > 0
           /\ 15 * r.final_score.den <= r.final_score.num
           /\ r.final_score.num <= 95 * r.final_score.den
           /\ \A i \in 1..3 : \A c \in CurrentValuations :
                 (f.currents[i].some /\ c.some /\ c.v >= f.currents[i].v) =>
                     ~RatLess(r.final_score,
                              HistoricalValuation([f.currents EXCEPT ![i] = c], f.histories).final_score)

\* Witness of C22: PE has no current value; PB stands between the 25th and the
\* 50th percentile and PS above its whole history, and the score is the mean
\* of 70 and 15.
BlendOverTwoMetrics ==
    /\ ret.op = "historical_valuation"
    /\ ~ret.value.fields.result.scores[1].some
    /\ ret.value.fields.result.scores[2] = Some(70)
    /\ ret.value.fields.result.scores[3] = Some(15)
    /\ ret.value.fields.result.final_score = Rat(255, 6)

\* C23: a PE, PB or PS field that is absent from the provider record is scored
\* 50 (or left out), never as a real, extremely low valuation; and a metric
\* whose industry range collapsed to [0, 0] scores exactly 50.
AbsentValuationScoresNeutral ==
    ret.op = "valuation_score" =>
        /\ ~ret.value.fields.raw.some => ret.value.fields.score = 50
        /\ (ret.value.fields.low = 0 /\ ret.value.fields.high = 0) => ret.value.fields.score = 50

\* C28: the adjusted fair range of a metric stays an interval: for every
\* industry range with 0 < low <= high, every macro multiplier in [0.85, 1.15]
\* and either leader status, low <= adjusted high, so that some value of the
\* metric scores 100.
AdjustedRangeKeepsItsOrder ==
    (ret.op = "valuation_score" /\ 0 < ret.value.fields.low /\ ret.value.fields.low <= ret.value.fields.high) =>
        /\ ret.value.fields.adjustment_factor \in 850000..1150000
        /\ ret.value.fields.low * RangeScale <= ret.value.fields.adjusted_high
        /\ calculate_valuation_score(ret.value.fields.low * RangeScale, ret.value.fields.low * RangeScale,
                                     ret.value.fields.adjusted_high) = 100

\* C24: determine_trend_direction returns one of the 7 states for every input,
\* the strongest condition that holds: for positive averages the strong
\* condition implies the clear one and the clear one the mild one, no input
\* meets an up and a down condition, an empty list or a sentinel 0 gives
\* sideways, and the base scores are 80, 70, 60, 50, 40, 30, 20 in state order.
TrendStateIsStrongestSatisfied ==
    ret.op = "trend_direction" =>
        LET f == ret.value.fields
            usable == /\ \A i \in 1..5 : f.mas[i] # <<>>
                      /\ \A i \in 1..5 : f.mas[i][Len(f.mas[i])] # 0
            m(i) == f.mas[i][Len(f.mas[i])]
            strong_up == \A i \in 1..4 : 100 * m(i) > 101 * m(i + 1)
            clear_up == \A i \in 1..4 : m(i) > m(i + 1)
            mild_up == m(1) > m(2) /\ m(2) > m(4) /\ m(4) > m(5)
            strong_down == \A i \in 1..4 : 100 * m(i) < 99 * m(i + 1)
            clear_down == \A i \in 1..4 : m(i) < m(i + 1)
            mild_down == m(1) < m(2) /\ m(2) < m(4) /\ m(4) < m(5)
        IN /\ f.trend_status \in {"strong_up", "clear_up", "mild_up", "sideways", "mild_down", "clear_down",
                                  "strong_down"}
           /\ ~usable => f.trend_status = "sideways"
           /\ usable =>
                 /\ (strong_up => clear_up) /\ (clear_up => mild_up)
                 /\ (strong_down => clear_down) /\ (clear_down => mild_down)
                 /\ ~(mild_up /\ mild_down)
                 /\ f.trend_status = (IF strong_up THEN "strong_up" ELSE IF clear_up THEN "clear_up"
                                      ELSE IF mild_up THEN "mild_up" ELSE IF strong_down THEN "strong_down"
                                      ELSE IF clear_down THEN "clear_down" ELSE IF mild_down THEN "mild_down"
                                      ELSE "sideways")
           /\ f.base_score = (CASE f.trend_status = "strong_up" -> 80 [] f.trend_status = "clear_up" -> 70
                                [] f.trend_status = "mild_up" -> 60 [] f.trend_status = "sideways" -> 50
                                [] f.trend_status = "mild_down" -> 40 [] f.trend_status = "clear_down" -> 30
                                [] f.trend_status = "strong_down" -> 20)

\* Witness of C24: averages that each lie more than 1% below the average of
\* the next longer period are classified strong-down, with base score 20.
StrongFallClassified ==
    /\ ret.op = "trend_direction"
    /\ ret.value.fields.mas = <<<<0, 1000>>, <<0, 1020>>, <<0, 1040>>, <<0, 1060>>, <<0, 1080>>>>
    /\ ret.value.fields.trend_status = "strong_down"
    /\ ret.value.fields.base_score = 20

\* C25: calculate_rsi returns a list as long as its list of prices, for every
\* length, and the value at index i describes the price at index i: it is the
\* RSI of the prices up to and including that one.
RsiAlignedWithPrices ==
    ret.op = "calculate_rsi" =>
        LET f == ret.value.fields
        IN /\ Len(f.rsi_values) = Len(f.prices)
           /\ \A j \in (RsiPeriod + 1)..Len(f.rsi_values) :
                 f.rsi_values[j] = Latest(calculate_rsi(SubSeq(f.prices, 1, j)))

\* C27: the tier stored in a backtest record, the tier returned by
\* calculate_comprehensive_risk and the interval label of _get_risk_interval
\* put every score of [0, 100] into the same one of the four tiers.
TierMappingsAgree ==
    ret.op = "tier_labels" =>
        LET f == ret.value.fields
        IN /\ f.backtest_risk_level = f.risk_level
           /\ TierOfInterval(f.risk_interval) = f.risk_level

\* C29: an undershoot costs little: for every RTR in [0, 1] the deviation is at
\* most 30 and the turnover score is 100, 85 or 70, a stock without any
\* turnover scoring 70; the scores 55, 40 and 25 occur only for an RTR above 1;
\* a zero benchmark-times-factor denominator gives RTR 1.0 and score 100.
TurnoverUndershootBounded ==
    ret.op = "turnover_score" =>
        LET f == ret.value.fields
            d == f.benchmark_turnover * f.industry_factor
        IN /\ f.rtr.den > 0
           /\ (f.rtr.num >= 0 /\ f.rtr.num <= f.rtr.den) =>
                 /\ f.risk_deviation.num <= 30 * f.risk_deviation.den
                 /\ f.score \in {100, 85, 70}
           /\ (f.actual_turnover = 0 /\ d # 0) => f.score = 70
           /\ f.score \in {55, 40, 25} => f.rtr.num > f.rtr.den
           /\ d = 0 => (f.rtr.num = f.rtr.den /\ f.score = 100)

\* Witness of C29: no turnover at all against a benchmark of 1.0% and factor
\* 1.0: RTR 0, deviation 30, score 70.
ZeroTurnoverScores70 ==
    /\ ret.op = "turnover_score"
    /\ ret.value.fields.actual_turnover = 0
    /\ ret.value.fields.benchmark_turnover = 100
    /\ ret.value.fields.industry_factor = 10
    /\ ret.value.fields.rtr.num = 0
    /\ ret.value.fields.risk_deviation.num = 30 * ret.value.fields.risk_deviation.den
    /\ ret.value.fields.score = 70

(***************************************************************************)
(* The industry percentile engine with its fetches                         *)
(***************************************************************************)
\* "return 0.5, 0.0"
DefaultPercentile == [percentile |-> Rat(1, 2), industry_avg |-> Rat(0, 1)]

\* The float a record of the provider holds, in whole tenths.
Tenths(p) == CASE p.a = "12.5" -> 125 [] p.a = "0.8" -> 8 [] OTHER -> 0

\* The loop over the roster that lets the first failing peer end the collection.
RECURSIVE CollectPeerValues_abort(_, _, _, _, _, _, _)
CollectPeerValues_abort(d, t, roster, os, i, fetches, values) ==
    IF i > Len(roster)
    THEN [disk |-> d, fetches |-> fetches, values |-> values]
    ELSE LET r == ProfitDataCall(d, t, format_stock_code(roster[i].a), 2025, 3, os[i])
         IN IF r.ret.kind = "raised"
            THEN [disk |-> r.disk, fetches |-> Append(fetches, "raised"), values |-> <<>>]
            ELSE LET v == DictGet(r.ret.value, "roe")
                 IN CollectPeerValues_abort(r.disk, t, roster, os, i + 1,
                                            Append(fetches, IF v = PyNone THEN "null" ELSE "value"),
                                            IF v = PyNone THEN values ELSE Append(values, Tenths(v)))

\* The loop over the roster, from its i-th peer on, for metric_type "roe":
\* [disk, fetches, values].  A peer whose get_profit_data raises is passed over
\* ("except Exception: continue"), and so is one whose record holds None.
RECURSIVE CollectPeerValues(_, _, _, _, _, _, _)
CollectPeerValues(d, t, roster, os, i, fetches, values) ==
    IF i > Len(roster)
    THEN [disk |-> d, fetches |-> fetches, values |-> values]
    ELSE LET r == ProfitDataCall(d, t, format_stock_code(roster[i].a), 2025, 3, os[i])
         IN IF r.ret.kind = "raised"
            THEN CollectPeerValues(r.disk, t, roster, os, i + 1, Append(fetches, "raised"), values)
            ELSE LET v == DictGet(r.ret.value, "roe")
                 IN CollectPeerValues(r.disk, t, roster, os, i + 1,
                                      Append(fetches, IF v = PyNone THEN "null" ELSE "value"),
                                      IF v = PyNone THEN values ELSE Append(values, Tenths(v)))

\* One execution of calculate_industry_percentile(metric_value, industry_name,
\* "roe") at time t on disk d: [disk, ret].  o is what the roster provider did,
\* os[i] what the profit provider did for the i-th peer.  stage tells which
\* return statement was taken.
IndustryPercentileCall(d, t, metric_value, industry_name, o, os) ==
    LET base == [op |-> "calculate_industry_percentile", key |-> industry_name, kind |-> "returned",
                 value |-> PyNone, called |-> FALSE, age |-> -1]
        out(stage, roster, fetches, values, result) ==
            [base EXCEPT !.value = EngineResult([metric_value |-> metric_value, stage |-> stage,
                                                 roster |-> roster, fetches |-> fetches,
                                                 values |-> values, result |-> result])]
        c == IndustryComponentsCall(d, t, industry_name, o)
        roster == c.ret.value.s
        g == CollectPeerValues(c.disk, t, roster, os, 1, <<>>, <<>>)
    IN IF metric_value = PyNone
       THEN [disk |-> d, ret |-> out("metric_none", <<>>, <<>>, <<>>, DefaultPercentile)]
       ELSE IF c.ret.kind = "raised"
            THEN [disk |-> c.disk, ret |-> out("roster_failed", <<>>, <<>>, <<>>, DefaultPercentile)]
            ELSE IF roster = <<>>
                 THEN [disk |-> c.disk, ret |-> out("roster_empty", roster, <<>>, <<>>, DefaultPercentile)]
                 ELSE IF g.values = <<>>
                      THEN [disk |-> g.disk,
                            ret |-> out("no_values", roster, g.fetches, <<>>, DefaultPercentile)]
                      ELSE [disk |-> g.disk,
                            ret |-> out("ranked", roster, g.fetches, g.values,
                                        RankAmongPeers(Tenths(metric_value), g.values))]

calculate_industry_percentile(metric_value, industry_name, o, os) ==
    LET r == IndustryPercentileCall(disk, now, metric_value, industry_name, o, os)
    IN /\ disk' = r.disk
       /\ ret' = r.ret
       /\ UNCHANGED <<now, ticks, bt>>

PercentileIndustry == "computer"
RosterCodes == {ProviderRoster(PercentileIndustry).s[i].a : i \in 1..Len(ProviderRoster(PercentileIndustry).s)}
                  \cup {FallbackRoster.s[i].a : i \in 1..Len(FallbackRoster.s)}
PercentileKeys == {ComponentsKey(PercentileIndustry)} \cup {ProfitKey(format_stock_code(c), 2025, 3) : c \in RosterCodes}
MetricInputs == {PyNone, PyFloat("0.8"), PyFloat("12.5")}
\* What the profit provider does for the first peer and for the others.
PeerOutcomeRuns == {[i \in 1..Len(FallbackRoster.s) |-> IF i = 1 THEN a ELSE b] : a, b \in ProviderOutcomes}

InitPercentile ==
    /\ RetryIdle
    /\ disk = [k \in PercentileKeys |-> Absent]
    /\ now = 1
    /\ ticks = 0
    /\ ret = NoRet
    /\ bt = BacktestIdle

NextPercentile ==
    \/ \E metric_value \in MetricInputs, o \in {"ok", "error"}, os \in PeerOutcomeRuns :
          calculate_industry_percentile(metric_value, PercentileIndustry, o, os) /\ UNCHANGED retryVars
    \/ SetCachedData(ComponentsKey(PercentileIndustry), PyList(<<>>)) /\ UNCHANGED <<retryVars, bt>>
    \/ \E k \in {ComponentsKey(PercentileIndustry), ProfitKey("sz.300001", 2025, 3)} :
          DamageFile(k) /\ UNCHANGED <<retryVars, bt>>

SpecPercentile == InitPercentile /\ [][NextPercentile]_vars

PercentileReturned == ret.op = "calculate_industry_percentile"

\* C14 as stated: calculate_industry_percentile returns exactly (0.5, 0.0) and
\* raises nothing whenever the metric value is None, the peer roster is empty,
\* no peer yields a non-null value, or any step of the peer collection fails.
DefaultWheneverAStepFails ==
    PercentileReturned =>
        LET f == ret.value.fields
        IN /\ ret.kind = "returned"
           /\ (\/ f.metric_value = PyNone
               \/ f.stage \in {"roster_empty", "roster_failed"}
               \/ f.values = <<>>
               \/ \E i \in 1..Len(f.fetches) : f.fetches[i] = "raised")
                 => f.result = DefaultPercentile

\* C14 amended: calculate_industry_percentile raises nothing, and it returns
\* exactly (0.5, 0.0) whenever the metric value is None, the peer roster is
\* empty or reading it fails, or no peer yields a non-null value; a peer whose
\* fetch fails is passed over, every other peer is still fetched, and the
\* result is the rank among the values of the peers that yielded one.
DefaultOnlyWhenNoPeerValue ==
    PercentileReturned =>
        LET f == ret.value.fields
            yielded == {i \in 1..Len(f.fetches) : f.fetches[i] = "value"}
        IN /\ ret.kind = "returned"
           /\ (\/ f.metric_value = PyNone
               \/ f.stage \in {"roster_empty", "roster_failed"}
               \/ yielded = {})
                 => f.result = DefaultPercentile
           /\ f.stage \in {"no_values", "ranked"} => Len(f.fetches) = Len(f.roster)
           /\ Len(f.values) = Cardinality(yielded)
           /\ (f.metric_value # PyNone /\ yielded # {})
                 => /\ f.result = RankAmongPeers(Tenths(f.metric_value), f.values)
                    /\ f.result # DefaultPercentile

\* Witness of C14: the roster could not be read and the default came back.
DefaultAfterRosterFailure ==
    /\ PercentileReturned
    /\ ret.value.fields.stage = "roster_failed"
    /\ ret.value.fields.result = DefaultPercentile
====
